---------------------------- MODULE Spec2Model ----------------------------
(***************************************************************************)
(* A model of the tech-week calendar scraper: the scroll/stabilisation    *)
(* loop and card extraction of scrape_events (both copies of the module), *)
(* the field normalisers it calls, the three deduplication routines and   *)
(* the batched upload with its per-record fallback.                       *)
(*                                                                         *)
(* Strings are sequences of one-character strings, so that the            *)
(* normalisers are computed character by character as the code does.      *)
(***************************************************************************)
EXTENDS Integers, Sequences, FiniteSets, TLC

(***************************************************************************)
(* Characters and elementary string operations (Python str methods).      *)
(***************************************************************************)
UpperLetters == <<"A","B","C","D","E","F","G","H","I","J","K","L","M",
                  "N","O","P","Q","R","S","T","U","V","W","X","Y","Z">>

LowerLetters == <<"a","b","c","d","e","f","g","h","i","j","k","l","m",
                  "n","o","p","q","r","s","t","u","v","w","x","y","z">>

Digits == <<"0","1","2","3","4","5","6","7","8","9">>

IsSpace(c) == c \in {" ", "\t", "\n"}

IsDigit(c) == \E d \in 1..10 : Digits[d] = c

IsAlpha(c) == \E k \in 1..26 : UpperLetters[k] = c \/ LowerLetters[k] = c

\* str.lower() on one character
LowerChar(c) ==
    IF \E k \in 1..26 : UpperLetters[k] = c
    THEN LowerLetters[CHOOSE k \in 1..26 : UpperLetters[k] = c]
    ELSE c

\* str.lower()
Lower(s) == [k \in 1..Len(s) |-> LowerChar(s[k])]

\* s[a-1:b] in Python terms: the characters a..b (1-based, inclusive)
Slice(s, a, b) == IF a > b THEN <<>> ELSE SubSeq(s, a, b)

\* str.strip(): drop leading and trailing whitespace
Strip(s) ==
    LET keep == {k \in 1..Len(s) : ~IsSpace(s[k])}
    IN  IF keep = {} THEN <<>>
        ELSE Slice(s, CHOOSE a \in keep : \A k \in keep : a <= k,
                      CHOOSE b \in keep : \A k \in keep : b >= k)

\* re.sub(r"\s+", " ", text): every whitespace run becomes one space
CollapseSpaces(s) ==
    LET kept == {k \in 1..Len(s) : ~IsSpace(s[k]) \/ k = 1 \/ ~IsSpace(s[k-1])}
        F[k \in 0..Len(s)] ==
            IF k = 0 THEN <<>>
            ELSE IF k \in kept
                 THEN Append(F[k-1], IF IsSpace(s[k]) THEN " " ELSE s[k])
                 ELSE F[k-1]
    IN  F[Len(s)]

\* `phrase in s`
Contains(s, phrase) ==
    \E a \in 1..(Len(s) - Len(phrase) + 1) :
        Slice(s, a, a + Len(phrase) - 1) = phrase

\* str.split(): the maximal runs of non-whitespace characters, in order
Split(s) ==
    LET starts == {k \in 1..Len(s) : ~IsSpace(s[k]) /\ (k = 1 \/ IsSpace(s[k-1]))}
        EndOf(a) == CHOOSE b \in a..Len(s) :
                        /\ \A k \in a..b : ~IsSpace(s[k])
                        /\ (b = Len(s) \/ IsSpace(s[b+1]))
        F[k \in 0..Len(s)] ==
            IF k = 0 THEN <<>>
            ELSE IF k \in starts THEN Append(F[k-1], Slice(s, k, EndOf(k)))
                 ELSE F[k-1]
    IN  F[Len(s)]

\* " ".join(parts)
RECURSIVE JoinSpace(_)
JoinSpace(parts) ==
    IF parts = <<>> THEN <<>>
    ELSE IF Len(parts) = 1 THEN parts[1]
    ELSE parts[1] \o <<" ">> \o JoinSpace(Tail(parts))

\* str.isdigit() (ASCII digits)
AllDigits(s) == s # <<>> /\ \A k \in 1..Len(s) : IsDigit(s[k])

DigitValue(c) == (CHOOSE d \in 1..10 : Digits[d] = c) - 1

\* int(s) for a string of digits
RECURSIVE ToInt(_)
ToInt(s) ==
    IF s = <<>> THEN 0
    ELSE 10 * ToInt(Slice(s, 1, Len(s) - 1)) + DigitValue(s[Len(s)])

\* str(n) for n >= 0
RECURSIVE ToDigits(_)
ToDigits(n) ==
    IF n < 10 THEN <<Digits[n + 1]>>
    ELSE ToDigits(n \div 10) \o <<Digits[(n % 10) + 1]>>

\* f"{n:02d}"
Pad2(n) == IF n < 10 THEN <<"0">> \o ToDigits(n) ELSE ToDigits(n)

(***************************************************************************)
(* FieldNormalizer                                                         *)
(***************************************************************************)
\* a _clean_text that collapses the white space without trimming
CleanText_Untrimmed(text) ==
    IF text = <<>> THEN <<>> ELSE CollapseSpaces(text)

\* _clean_text
CleanText(text) ==
    IF text = <<>> THEN <<>> ELSE Strip(CollapseSpaces(text))

MonthNames == {<<"J","a","n">>, <<"F","e","b">>, <<"M","a","r">>, <<"A","p","r">>,
               <<"M","a","y">>, <<"J","u","n">>, <<"J","u","l">>, <<"A","u","g">>,
               <<"S","e","p">>, <<"O","c","t">>, <<"N","o","v">>, <<"D","e","c">>}

TargetYear == <<"2","0","2","5">>

\* s[:n]: the first n characters, or all of s when it is shorter
Prefix(s, n) == IF Len(s) <= n THEN s ELSE SubSeq(s, 1, n)

\* format_date_to_mmm_dd_yyyy
FormatDate(date_str) ==
    IF date_str = <<>> \/ Strip(date_str) = <<>> THEN <<>>
    ELSE LET parts == Split(Strip(date_str))
         IN  IF Len(parts) >= 3
                  /\ Prefix(parts[2], 3) \in MonthNames
                  /\ AllDigits(parts[3])
             THEN Prefix(parts[2], 3) \o <<"-">> \o Pad2(ToInt(parts[3]))
                      \o <<"-">> \o TargetYear
             ELSE date_str

\* the end of the match of \d+(?:\.\d{1,2})? that starts at a (s[a] is a digit)
NumberEnd(s, a) ==
    LET e == CHOOSE b \in a..Len(s) :
                 /\ \A k \in a..b : IsDigit(s[k])
                 /\ (b = Len(s) \/ ~IsDigit(s[b+1]))
    IN  IF e + 2 <= Len(s) /\ s[e+1] = "." /\ IsDigit(s[e+2])
        THEN IF e + 3 <= Len(s) /\ IsDigit(s[e+3]) THEN e + 3 ELSE e + 2
        ELSE e

\* a clean_price_format that only drops the white space around the price
CleanPrice_KeepsSymbol(price_str) ==
    IF price_str = <<>> \/ Strip(price_str) = <<>> THEN <<"0">>
    ELSE IF Lower(Strip(price_str)) = <<"f","r","e","e">> THEN <<"0">>
         ELSE Strip(price_str)

\* clean_price_format
CleanPrice(price_str) ==
    IF price_str = <<>> \/ Strip(price_str) = <<>> THEN <<"0">>
    ELSE LET price == Strip(price_str)
             ds    == {k \in 1..Len(price) : IsDigit(price[k])}
         IN  IF Lower(price) = <<"f","r","e","e">> THEN <<"0">>
             ELSE IF ds # {}
                  THEN LET a == CHOOSE k \in ds : \A m \in ds : k <= m
                       IN  Slice(price, a, NumberEnd(price, a))
                  ELSE <<"0">>

InvitePhrasesTime ==
    { <<"i","n","v","i","t","e"," ","o","n","l","y">>,
      <<"i","n","v","i","t","a","t","i","o","n"," ","o","n","l","y">>,
      <<"b","y"," ","i","n","v","i","t","a","t","i","o","n">>,
      <<"p","r","i","v","a","t","e">>,
      <<"e","x","c","l","u","s","i","v","e">> }

InvitePhrasesDescription ==
    InvitePhrasesTime \cup
    { <<"l","i","m","i","t","e","d","-","a","v","a","i","l","a","b","i","l","i","t","y">> }

Meridiems == {<<"a","m">>, <<"p","m">>, <<"A","M">>, <<"P","M">>}

\* the end of a match of \d{1,2}:\d{2}\s*(?:am|pm|AM|PM) starting at a with d
\* leading digits, or 0 when there is none
TimeEndWith(s, a, d) ==
    IF /\ a + d + 2 <= Len(s)
       /\ \A k \in a..(a + d - 1) : IsDigit(s[k])
       /\ s[a + d] = ":"
       /\ IsDigit(s[a + d + 1]) /\ IsDigit(s[a + d + 2])
    THEN LET p  == a + d + 3
             ws == {w \in p..(Len(s) + 1) : \A k \in p..(w - 1) : IsSpace(s[k])}
             ok == {w \in ws : w + 1 <= Len(s) /\ Slice(s, w, w + 1) \in Meridiems}
         IN  IF ok = {} THEN 0 ELSE (CHOOSE w \in ok : TRUE) + 1
    ELSE 0

\* two leading digits are tried before one (greedy \d{1,2})
TimeEnd(s, a) ==
    IF TimeEndWith(s, a, 2) # 0 THEN TimeEndWith(s, a, 2) ELSE TimeEndWith(s, a, 1)

\* a clean_event_time in which the time pattern is tried before the phrases
CleanEventTime_PatternFirst(time_str, description) ==
    IF time_str = <<>> \/ Strip(time_str) = <<>>
    THEN IF description # <<>>
            /\ \E ph \in InvitePhrasesDescription : Contains(Lower(description), ph)
         THEN <<(<<>>), TRUE>>
         ELSE <<(<<>>), FALSE>>
    ELSE LET time   == Strip(time_str)
             starts == {a \in 1..Len(time) : TimeEnd(time, a) # 0}
         IN  IF starts # {}
             THEN LET a == CHOOSE k \in starts : \A m \in starts : k <= m
                  IN  <<Slice(time, a, TimeEnd(time, a)), FALSE>>
             ELSE IF \E ph \in InvitePhrasesTime : Contains(Lower(time), ph)
                  THEN <<(<<>>), TRUE>>
                  ELSE <<(<<>>), FALSE>>

\* clean_event_time: <<cleaned_time, is_invite_only>>
CleanEventTime(time_str, description) ==
    IF time_str = <<>> \/ Strip(time_str) = <<>>
    THEN IF description # <<>>
            /\ \E ph \in InvitePhrasesDescription : Contains(Lower(description), ph)
         THEN <<(<<>>), TRUE>>
         ELSE <<(<<>>), FALSE>>
    ELSE LET time   == Strip(time_str)
             starts == {a \in 1..Len(time) : TimeEnd(time, a) # 0}
         IN  IF \E ph \in InvitePhrasesTime : Contains(Lower(time), ph)
             THEN <<(<<>>), TRUE>>
             ELSE IF starts # {}
                  THEN LET a == CHOOSE k \in starts : \A m \in starts : k <= m
                       IN  <<Slice(time, a, TimeEnd(time, a)), FALSE>>
                  ELSE <<(<<>>), FALSE>>

(***************************************************************************)
(* DetailEnricher: fetch_external_details.  A response is what the fetch  *)
(* and the page heuristics meet: status is the HTTP outcome, desc, host   *)
(* and price are the strings the heuristics recover, and fail_at is the   *)
(* heuristic during which an exception is raised ("none" when none is).   *)
(***************************************************************************)
NoResponse == [status |-> "none", fail_at |-> "none",
               desc |-> <<>>, host |-> <<>>, price |-> <<>>]

\* the body after raise_for_status: <<desc, hosted_by, price>>
ParsePage(resp) ==
    IF resp.fail_at = "desc" THEN <<(<<>>), <<>>, <<>>>>
    ELSE IF resp.fail_at = "host" THEN <<Strip(resp.desc), <<>>, <<>>>>
    ELSE IF resp.fail_at = "price"
         THEN <<Strip(resp.desc),
                IF \E k \in 1..Len(CleanText(resp.host)) : IsAlpha(CleanText(resp.host)[k])
                THEN CleanText(resp.host) ELSE <<>>,
                <<>>>>
    ELSE <<CleanText(Strip(resp.desc)),
           IF \E k \in 1..Len(CleanText(resp.host)) : IsAlpha(CleanText(resp.host)[k])
           THEN CleanText(resp.host) ELSE <<>>,
           CleanText(resp.price)>>

\* a fetch without raise_for_status: the error page is parsed like any other
FetchExternalDetails_IgnoresStatus(resp) == ParsePage(resp)

\* fetch_external_details: <<desc, hosted_by, price>>; never raises
FetchExternalDetails(resp) ==
    IF resp.status # "ok" THEN <<(<<>>), <<>>, <<>>>> ELSE ParsePage(resp)

(***************************************************************************)
(* CardExtractor: the body of the loop over card_handles in scrape_events.*)
(* A card is what the DOM queries on its handle answer: every field is    *)
(* [fail, text], fail meaning that the query or inner_text raises; tokens *)
(* are the texts of the descendants of the date wrapper; resp is the      *)
(* response of the event's own page.                                       *)
(***************************************************************************)
DayNames == {<<"M","o","n">>, <<"T","u","e">>, <<"W","e","d">>, <<"T","h","u">>,
             <<"F","r","i">>, <<"S","a","t">>, <<"S","u","n">>}

MiddleDot == <<"·">>

\* the loop over tokens: <<dow, month, dom>>, the first match of each kind
RECURSIVE ClassifyTokens(_, _)
ClassifyTokens(tokens, acc) ==
    IF tokens = <<>> THEN acc
    ELSE LET tok == tokens[1]
             nxt == IF acc[1] = <<>> /\ tok \in DayNames THEN <<tok, acc[2], acc[3]>>
                    ELSE IF acc[2] = <<>> /\ tok \in MonthNames THEN <<acc[1], tok, acc[3]>>
                    ELSE IF acc[3] = <<>> /\ AllDigits(tok) /\ Len(tok) <= 2
                         THEN <<acc[1], acc[2], tok>>
                    ELSE acc
         IN  ClassifyTokens(Tail(tokens), nxt)

\* tokens.append(txt) for every non-empty text that is not the middle dot
RECURSIVE KeepTokens(_)
KeepTokens(texts) ==
    IF texts = <<>> THEN <<>>
    ELSE IF Strip(texts[1]) = <<>> \/ Strip(texts[1]) = MiddleDot
         THEN KeepTokens(Tail(texts))
         ELSE <<Strip(texts[1])>> \o KeepTokens(Tail(texts))

RECURSIVE DropEmpty(_)
DropEmpty(parts) ==
    IF parts = <<>> THEN <<>>
    ELSE IF parts[1] = <<>> THEN DropEmpty(Tail(parts))
         ELSE <<parts[1]>> \o DropEmpty(Tail(parts))

\* date = " ".join([x for x in [dow, month, dom] if x])
AssembleDate(texts) ==
    JoinSpace(DropEmpty(ClassifyTokens(KeepTokens(texts), <<(<<>>), <<>>, <<>>>>)))

\* name: its own try block
ExtractName(card) == IF card.name.fail THEN <<>> ELSE Strip(card.name.text)

\* time_str and date share one try block: the time lookup comes first, so an
\* exception in it leaves both empty, and one in the date lookup leaves date empty
ExtractTimeAndDate(card) ==
    IF card.time.fail THEN <<(<<>>), <<>>>>
    ELSE IF card.date.fail THEN <<Strip(card.time.text), <<>>>>
    ELSE <<Strip(card.time.text), AssembleDate(card.date.tokens)>>

\* location: its own try block
ExtractLocation(card) == IF card.loc.fail THEN <<>> ELSE Strip(card.loc.text)

\* url: its own try block; the href is taken as it is
ExtractLink(card) == IF card.link.fail THEN <<>> ELSE card.link.text

\* desc, host, price = fetch_external_details(url) if url
CardDetails(card) ==
    IF ExtractLink(card) # <<>> THEN FetchExternalDetails(card.resp)
    ELSE <<(<<>>), <<>>, <<>>>>

\* Event(...) of src/scrape_tech_week_sf.py
RootEvent(card) ==
    [event_name        |-> CleanText(ExtractName(card)),
     event_date        |-> CleanText(ExtractTimeAndDate(card)[2]),
     event_time        |-> CleanText(ExtractTimeAndDate(card)[1]),
     event_location    |-> CleanText(ExtractLocation(card)),
     event_description |-> CleanText(CardDetails(card)[1]),
     hosted_by         |-> CleanText(CardDetails(card)[2]),
     price             |-> CleanText(CardDetails(card)[3]),
     event_url         |-> ExtractLink(card)]

\* Event(...) of src/scraper/scrape_tech_week_sf.py
ScraperEvent(card) ==
    LET cleaned == CleanEventTime(CleanText(ExtractTimeAndDate(card)[1]),
                                  CleanText(CardDetails(card)[1]))
    IN  [event_name        |-> CleanText(ExtractName(card)),
         event_date        |-> FormatDate(CleanText(ExtractTimeAndDate(card)[2])),
         event_time        |-> cleaned[1],
         event_location    |-> CleanText(ExtractLocation(card)),
         event_description |-> CleanText(CardDetails(card)[1]),
         hosted_by         |-> CleanText(CardDetails(card)[2]),
         price             |-> CleanPrice(CleanText(CardDetails(card)[3])),
         event_url         |-> ExtractLink(card),
         event_tags        |-> <<>>,
         usage_tags        |-> <<>>,
         industry_tags     |-> <<>>,
         women_specific    |-> FALSE,
         invite_only       |-> cleaned[2]]

BuildEvent(v, card) == IF v = "scraper" THEN ScraperEvent(card) ELSE RootEvent(card)

\* an extraction that drops the card whose name lookup failed
AppendEvent_SkipsNameless(evs, v, card) ==
    IF card.name.fail THEN evs ELSE Append(evs, BuildEvent(v, card))

\* events.append(event) at the end of the loop body
AppendEvent(evs, v, card) == Append(evs, BuildEvent(v, card))

(***************************************************************************)
(* StableScrollCollector: scrape_events                                    *)
(***************************************************************************)
\* the cycle limit, the stability threshold and the card and poll bounds of the
\* model; both tunables are overridden from the command line (--max-cycles,
\* --stable-rounds)
MaxCycles == 5

MaxPolls == 2

MaxCards == 2

MaxSelectors == 2

SCROLL_MAX_CYCLES == MaxCycles

STABLE_ROUNDS_TARGET == 3

\* `count > 500` of the scraper copy
MinItemFloor == 500

\* the item counts a read answers in the model
CountValues == {5, 8, 500, 501}

\* what a read of the item count does: it answers n, or it raises
Answer(n) == [raised |-> FALSE, n |-> n]

ReadRaises == [raised |-> TRUE, n |-> 0]

CountReadings == {Answer(n) : n \in CountValues} \cup {ReadRaises}

Variants == {"root", "scraper"}

\* the load-more selectors tried in a cycle: one in the root copy, a list in
\* the scraper copy (its length is bounded by MaxSelectors in the model)
Selectors(v) == IF v = "root" THEN 1..1 ELSE 1..MaxSelectors

\* what trying one selector does
SelectorOutcomes == {"absent", "raise", "clicked"}

\* the pagination readout of the scraper copy: an exception, no match (null),
\* or the parsed "current / total" with the load-more flag
PaginationReadouts ==
    {[kind |-> "raise"], [kind |-> "null"]} \cup
    [kind : {"info"}, currentPage : {1, 2}, totalPages : {2}, hasLoadMore : BOOLEAN]

Txt(fail, text) == [fail |-> fail, text |-> text]

Tok(fail, tokens) == [fail |-> fail, tokens |-> tokens]

NameTexts == {<<"A">>, <<" ","B","\n">>}

TimeTexts == {<<>>, <<"6",":","0","0"," ","p","m">>,
              <<"I","n","v","i","t","e"," ","O","n","l","y">>}

DateTokens == {<< <<"F","r","i">>, MiddleDot, <<"O","c","t">>, <<"1","0">> >>,
               << <<"O","c","t">>, <<"7">> >>}

LocationTexts == {<<>>, <<"S","F">>}

LinkTexts == {<<>>, <<"u">>}

Responses ==
    { [status |-> "http_error", fail_at |-> "none",
       desc |-> <<"E","r","r">>, host |-> <<"S">>, price |-> <<"$","5">>],
      [status |-> "network_error", fail_at |-> "none",
       desc |-> <<>>, host |-> <<>>, price |-> <<>>],
      [status |-> "ok", fail_at |-> "none",
       desc |-> <<"D"," "," ","x">>, host |-> <<"H">>,
       price |-> <<"$","1","2",".","5","0">>],
      [status |-> "ok", fail_at |-> "none",
       desc |-> <<"P","r","i","v","a","t","e">>, host |-> <<"!">>,
       price |-> <<"F","r","e","e">>],
      [status |-> "ok", fail_at |-> "host",
       desc |-> <<"D">>, host |-> <<"H">>, price |-> <<>>] }

\* every card the model renders alone on a page
RichCards ==
    { c \in [name : {Txt(TRUE, <<>>)} \cup {Txt(FALSE, t) : t \in NameTexts},
             time : {Txt(TRUE, <<>>)} \cup {Txt(FALSE, t) : t \in TimeTexts},
             date : {Tok(TRUE, <<>>)} \cup {Tok(FALSE, t) : t \in DateTokens},
             loc  : {Txt(TRUE, <<>>)} \cup {Txt(FALSE, t) : t \in LocationTexts},
             link : {Txt(TRUE, <<>>)} \cup {Txt(FALSE, t) : t \in LinkTexts},
             resp : Responses \cup {NoResponse}] :
        (c.resp = NoResponse) <=> (c.link.fail \/ c.link.text = <<>>) }

\* a card whose every DOM query raises
FailingCard ==
    [name |-> Txt(TRUE, <<>>), time |-> Txt(TRUE, <<>>), date |-> Tok(TRUE, <<>>),
     loc |-> Txt(TRUE, <<>>), link |-> Txt(TRUE, <<>>), resp |-> NoResponse]

PlainCard(n) ==
    [name |-> Txt(FALSE, n), time |-> Txt(FALSE, <<"6",":","0","0"," ","p","m">>),
     date |-> Tok(FALSE, << <<"O","c","t">>, <<"7">> >>),
     loc |-> Txt(FALSE, <<"S","F">>), link |-> Txt(FALSE, <<>>), resp |-> NoResponse]

SimpleCards == {FailingCard} \cup {PlainCard(n) : n \in NameTexts}

\* what the DOM queries on the cards of a page answer: a page of one card
\* holds any card, a longer page simple cards
CardsOn(handles) == IF Len(handles) = 1 THEN RichCards ELSE SimpleCards

VARIABLES
    variant,        \* which copy of the module runs
    pc,             \* "wait", "loading", "enumerate", "cards", "done"
    polls,          \* sleeps taken while waiting for the first item
    i,              \* LOADING cycles completed
    count,          \* the item count as last read
    last_count,     \* the item count of the previous cycle (-1 at first)
    stable_rounds,  \* consecutive cycles with an unchanged count
    reads,          \* what the count read of every cycle so far did
    clicks,         \* load-more controls clicked in the last cycle
    exit_reason,    \* how the loop was left
    card_handles,   \* the card handles enumerated at exit, in document order
    dom,            \* the handles processed so far, with what their DOM queries answered
    events,         \* the Event list
    \* deduplication
    dd_impl,        \* which deduplication routine runs
    dd_conflict,    \* upsert_supabase_events: the conflict column
    dd_keep,        \* remove_duplicates.py: --keep
    dd_rows,        \* the batch, in input order
    dd_out,         \* the deduplicated batch
    dd_pc,          \* "ready", "done"
    \* upload_events_to_supabase
    up_events,      \* the records to upload
    up_batch_size,  \* batch_size
    up_i,           \* the records before the current batch
    up_j,           \* the records of the current batch resubmitted so far
    up_pc,          \* "batch", "individual", "done"
    total_uploaded, \* the count the function returns
    up_log,         \* every submission made: its records and the store's answer
    \* upsert_supabase_events: its locals, and every request it posted
    upsert,
    \* two runs of upload_events_to_supabase against one store
    runs,
    \* investigate_url_conflicts: the stored records and what it marks
    recon,
    \* one run of a script's main: its flags and environment, and what it has done
    mainrun,
    \* one call of generate_usage_tags or generate_industry_tags
    classify,
    \* one pass of update_csv_with_keywords over a results file
    tagging,
    \* one call of clean_event_time, direct or from scrape_events
    cleaning,
    \* one call of a field normalizer, direct or from scrape_events
    norm,
    \* the LOADING loop of scrape_events, with what every step of the last cycle did
    loading

scrapeVars == <<variant, pc, polls, i, count, last_count, stable_rounds, reads,
                clicks, exit_reason, card_handles, dom, events>>

dedupVars == <<dd_impl, dd_conflict, dd_keep, dd_rows, dd_out, dd_pc>>

uploadVars == <<up_events, up_batch_size, up_i, up_j, up_pc, total_uploaded, up_log>>

vars == <<scrapeVars, dedupVars, uploadVars, upsert, runs, recon, mainrun, classify, tagging, cleaning, norm, loading>>

\* what an operation leaves alone: the state of the other operations
notScrape == <<dedupVars, uploadVars, upsert, runs, recon, mainrun, classify, tagging, cleaning, norm, loading>>

notDedup == <<scrapeVars, uploadVars, upsert, runs, recon, mainrun, classify, tagging, cleaning, norm, loading>>

notUpload == <<scrapeVars, dedupVars, upsert, runs, recon, mainrun, classify, tagging, cleaning, norm, loading>>

notUpsert == <<scrapeVars, dedupVars, uploadVars, runs, recon, mainrun, classify, tagging, cleaning, norm, loading>>

notRuns == <<scrapeVars, dedupVars, uploadVars, upsert, recon, mainrun, classify, tagging, cleaning, norm, loading>>

notRecon == <<scrapeVars, dedupVars, uploadVars, upsert, runs, mainrun, classify, tagging, cleaning, norm, loading>>

notMain == <<scrapeVars, dedupVars, uploadVars, upsert, runs, recon, classify, tagging, cleaning, norm, loading>>

notClassify == <<scrapeVars, dedupVars, uploadVars, upsert, runs, recon, mainrun, tagging, cleaning, norm, loading>>

notTagging == <<scrapeVars, dedupVars, uploadVars, upsert, runs, recon, mainrun, classify, cleaning, norm, loading>>

notCleaning == <<scrapeVars, dedupVars, uploadVars, upsert, runs, recon, mainrun, classify, tagging, norm, loading>>

notNorm == <<scrapeVars, dedupVars, uploadVars, upsert, runs, recon, mainrun, classify, tagging, cleaning, loading>>

notLoading == <<scrapeVars, dedupVars, uploadVars, upsert, runs, recon, mainrun, classify, tagging, cleaning, norm>>

\* the collector and the deduplication while another operation is modelled
ScrapeIdle ==
    /\ variant = "root" /\ pc = "idle" /\ polls = 0 /\ i = 0 /\ count = 0
    /\ last_count = -1 /\ stable_rounds = 0 /\ reads = <<>> /\ clicks = 0
    /\ exit_reason = "none" /\ card_handles = <<>> /\ dom = <<>> /\ events = <<>>

DedupIdle ==
    /\ dd_impl = "none" /\ dd_conflict = "none" /\ dd_keep = "first"
    /\ dd_rows = <<>> /\ dd_out = <<>> /\ dd_pc = "idle"

UploadIdle ==
    /\ up_events = <<>> /\ up_batch_size = 1 /\ up_i = 0 /\ up_j = 0
    /\ up_pc = "idle" /\ total_uploaded = 0 /\ up_log = <<>>

UpsertIdle == upsert = [pc |-> "idle"]

RunsIdle == runs = [pc |-> "idle"]

ReconIdle == recon = [pc |-> "idle"]

MainIdle == mainrun = [pc |-> "idle"]

ClassifyIdle == classify = [pc |-> "idle"]

TaggingIdle == tagging = [pc |-> "idle"]

CleaningIdle == cleaning = [pc |-> "idle"]

NormIdle == norm = [pc |-> "idle"]

LoadingIdle == loading = [pc |-> "idle"]

\* every operation but op is idle
OthersIdle(op) ==
    /\ IF op = "scrape" THEN TRUE ELSE ScrapeIdle
    /\ IF op = "dedup" THEN TRUE ELSE DedupIdle
    /\ IF op = "upload" THEN TRUE ELSE UploadIdle
    /\ IF op = "upsert" THEN TRUE ELSE UpsertIdle
    /\ IF op = "runs" THEN TRUE ELSE RunsIdle
    /\ IF op = "recon" THEN TRUE ELSE ReconIdle
    /\ IF op = "main" THEN TRUE ELSE MainIdle
    /\ IF op = "classify" THEN TRUE ELSE ClassifyIdle
    /\ IF op = "tagging" THEN TRUE ELSE TaggingIdle
    /\ IF op = "cleaning" THEN TRUE ELSE CleaningIdle
    /\ IF op = "norm" THEN TRUE ELSE NormIdle
    /\ IF op = "loading" THEN TRUE ELSE LoadingIdle

InitScrape ==
    /\ variant \in Variants
    /\ pc = "wait"
    /\ polls = 0
    /\ i = 0
    /\ count = 0
    /\ last_count = -1
    /\ stable_rounds = 0
    /\ reads = <<>>
    /\ clicks = 0
    /\ exit_reason = "none"
    /\ card_handles = <<>>
    /\ dom = <<>>
    /\ events = <<>>

\* a wait loop that takes a reading of 0 for a first item
FirstItemSeen_ZeroCounts(c) == c >= 0

\* `if count > 0: break` of the wait loop
FirstItemSeen(c) == c > 0

\* the wait for the first item: one pass of the `while True` loop.  A failed read
\* counts as 0; after a reading of 0 the 30 seconds have either passed (return
\* events) or not (sleep and poll again).  By MaxPolls sleeps they have passed.
WaitForFirstItem ==
    /\ pc = "wait"
    /\ \E r \in CountReadings \cup {Answer(0)}, timed_out \in BOOLEAN :
         LET c == IF r.raised THEN 0 ELSE r.n
         IN  /\ count' = c
             /\ IF FirstItemSeen(c)
                THEN pc' = "loading" /\ polls' = polls /\ exit_reason' = exit_reason
                ELSE IF timed_out \/ polls >= MaxPolls
                     THEN pc' = "done" /\ polls' = polls /\ exit_reason' = "timeout"
                     ELSE pc' = "wait" /\ polls' = polls + 1
                          /\ exit_reason' = exit_reason
    /\ UNCHANGED <<variant, i, last_count, stable_rounds, reads, clicks,
                   card_handles, dom, events>>
    /\ UNCHANGED notScrape

\* a load-more step without the break after a click
ClicksOf_EverySelector(outcomes) ==
    Cardinality({k \in DOMAIN outcomes : outcomes[k] = "clicked"})

\* the load-more step: the selectors are tried in order until one is clicked;
\* an exception on one selector moves on to the next
ClicksOf(outcomes) == IF \E k \in DOMAIN outcomes : outcomes[k] = "clicked" THEN 1 ELSE 0

\* a selector's lookup or click raised before any click of the cycle succeeded
LookupRaised(outcomes) ==
    \E k \in DOMAIN outcomes :
        outcomes[k] = "raise" /\ \A j \in DOMAIN outcomes : j < k => outcomes[j] # "clicked"

\* a counter that a changed count leaves as it is
NextStableRounds_NeverResets(c, last, rounds) == IF c = last THEN rounds + 1 ELSE rounds

\* a failed read taken for a count of 0, as the wait loop takes it
CountRead_FailureIsZero(r, last) == IF r.raised THEN 0 ELSE r.n

\* the read of the item count in a cycle: `except Exception: count = last_count`
CountRead(r, last) == IF r.raised THEN last ELSE r.n

\* a counter that restarts at 1, counting the changed cycle itself
NextStableRounds_RestartsAtOne(c, last, rounds) == IF c = last THEN rounds + 1 ELSE 1

\* stable_rounds after a cycle that read c
NextStableRounds(c, last, rounds) == IF c = last THEN rounds + 1 ELSE 0

\* the pagination shortcut of the scraper copy
PaginationEnds(info) ==
    /\ info.kind = "info"
    /\ (info.currentPage >= info.totalPages \/ ~info.hasLoadMore)

\* a stability rule without the floor on the item count
IsStable_IgnoresFloor(v, rounds, c) == rounds >= STABLE_ROUNDS_TARGET

\* the stability rule
IsStable(v, rounds, c) ==
    IF v = "scraper" THEN rounds >= STABLE_ROUNDS_TARGET /\ c > MinItemFloor
    ELSE rounds >= STABLE_ROUNDS_TARGET

\* a loop that runs one cycle too many
CycleLimitReached_OffByOne(n) == n > SCROLL_MAX_CYCLES

\* range(SCROLL_MAX_CYCLES) is used up after n cycles
CycleLimitReached(n) == n >= SCROLL_MAX_CYCLES

\* one pass of the `for i in range(SCROLL_MAX_CYCLES)` loop.  The scroll calls
\* sit in a try block of their own and assign no variable of the program.
LoadingCycle ==
    /\ pc = "loading"
    /\ ~CycleLimitReached(i)
    /\ \E outcomes \in [Selectors(variant) -> SelectorOutcomes],
          r \in CountReadings,
          info \in IF variant = "scraper" THEN PaginationReadouts
                   ELSE {[kind |-> "null"]} :
         LET c == CountRead(r, last_count)
             rounds == NextStableRounds(c, last_count, stable_rounds)
         IN  /\ clicks' = ClicksOf(outcomes)
             /\ count' = c
             /\ stable_rounds' = rounds
             /\ last_count' = c
             /\ reads' = Append(reads, r)
             /\ i' = i + 1
             /\ IF variant = "scraper" /\ PaginationEnds(info)
                THEN pc' = "enumerate" /\ exit_reason' = "pagination"
                ELSE IF IsStable(variant, rounds, c)
                     THEN pc' = "enumerate" /\ exit_reason' = "stable"
                     ELSE IF CycleLimitReached(i + 1)
                          THEN pc' = "enumerate" /\ exit_reason' = "exhausted"
                          ELSE pc' = "loading" /\ exit_reason' = exit_reason
    /\ UNCHANGED <<variant, polls, card_handles, dom, events>>
    /\ UNCHANGED notScrape

\* card_handles = page.query_selector_all(".calendar-events-item"); the loop's
\* locals are dead from here on
EnumerateCards ==
    /\ pc = "enumerate"
    /\ \E n \in 0..MaxCards : card_handles' = [k \in 1..n |-> k]
    /\ pc' = "cards"
    /\ i' = 0 /\ count' = 0 /\ last_count' = -1 /\ stable_rounds' = 0
    /\ reads' = <<>> /\ clicks' = 0
    /\ UNCHANGED <<variant, polls, exit_reason, dom, events>>
    /\ UNCHANGED notScrape

\* one pass of `for card in card_handles`: the queries on the next handle are
\* answered and its Event is appended
ExtractCard ==
    /\ pc = "cards"
    /\ Len(dom) < Len(card_handles)
    /\ \E card \in CardsOn(card_handles) :
         /\ dom' = Append(dom, [handle |-> card_handles[Len(dom) + 1], card |-> card])
         /\ events' = AppendEvent(events, variant, card)
    /\ UNCHANGED <<variant, pc, polls, i, count, last_count, stable_rounds, reads,
                   clicks, exit_reason, card_handles>>
    /\ UNCHANGED notScrape

\* browser.close(); return events
ReturnEvents ==
    /\ pc = "cards"
    /\ Len(dom) = Len(card_handles)
    /\ pc' = "done"
    /\ UNCHANGED <<variant, polls, i, count, last_count, stable_rounds, reads,
                   clicks, exit_reason, card_handles, dom, events>>
    /\ UNCHANGED notScrape

NextScrape ==
    \/ WaitForFirstItem
    \/ LoadingCycle
    \/ EnumerateCards
    \/ ExtractCard
    \/ ReturnEvents

Init == InitScrape /\ OthersIdle("scrape")

Next == NextScrape

Spec == Init /\ [][Next]_vars

(***************************************************************************)
(* IdentityKey and the three deduplication routines:                       *)
(* remove_duplicate_events (scraper copy), the in-operation dedup of       *)
(* upsert_supabase_events (root copy) and remove_duplicates.py with the    *)
(* method name_and_link.  A key is <<>> for None and <<s>> for a string s. *)
(***************************************************************************)
MaxBatch == 3

KeySeparator == <<" ", "|", " ">>

\* f"{name} | {url}"
IdentityKey(name, url) == name \o KeySeparator \o url

NoKey == <<>>

KeyOf(str) == <<str>>

\* str(cell) as pandas gives it: an empty CSV cell is read as NaN
PandasStr(cell) == IF cell = <<>> THEN <<"n","a","n">> ELSE cell

\* event['event_name_and_link'] of a csv.DictReader row
CsvKey(row) == KeyOf(row.event_name_and_link)

\* p[composite_key_col] when --composite-key-col is given, else p[on_conflict]
UpsertKey(conflict, row) ==
    IF conflict = "composite"
    THEN IF Strip(row.event_url) # <<>> \/ Strip(row.event_name) # <<>>
         THEN KeyOf(IdentityKey(Strip(row.event_name), Strip(row.event_url)))
         ELSE NoKey
    ELSE KeyOf(row.event_url)

\* the key remove_duplicates.py looks up, NoKey for a cell it passes over
PandasKey(row) ==
    LET name_and_link == Strip(PandasStr(row.event_name_and_link))
    IN  IF name_and_link # <<>> /\ name_and_link # <<"n","a","n">>
        THEN KeyOf(name_and_link) ELSE NoKey

\* remove_duplicate_events: the loop `for event in events` with its seen set
RECURSIVE RemoveDuplicateEvents(_, _)
RemoveDuplicateEvents(rows, seen) ==
    IF rows = <<>> THEN <<>>
    ELSE IF CsvKey(rows[1]) \notin seen
         THEN <<rows[1]>> \o RemoveDuplicateEvents(Tail(rows), seen \cup {CsvKey(rows[1])})
         ELSE RemoveDuplicateEvents(Tail(rows), seen)

\* upsert_supabase_events: the loop `for p in payloads` with its seen set
RECURSIVE DedupPayloads(_, _, _)
DedupPayloads(conflict, rows, seen) ==
    IF rows = <<>> THEN <<>>
    ELSE LET k == UpsertKey(conflict, rows[1])
         IN  IF k = NoKey
             THEN <<rows[1]>> \o DedupPayloads(conflict, Tail(rows), seen)
             ELSE IF k \in seen THEN DedupPayloads(conflict, Tail(rows), seen)
             ELSE <<rows[1]>> \o DedupPayloads(conflict, Tail(rows), seen \cup {k})

\* find_duplicates_by_name_and_link: the pairs <<first index, later index>>;
\* seen_links maps a key to the index that first showed it
FindDuplicatesByNameAndLink(rows) ==
    LET keyed(n) == PandasKey(rows[n]) # NoKey
        first(n) == CHOOSE m \in 1..n :
                        /\ PandasKey(rows[m]) = PandasKey(rows[n])
                        /\ \A q \in 1..(m - 1) : PandasKey(rows[q]) # PandasKey(rows[n])
    IN  {<<first(n), n>> : n \in {q \in 1..Len(rows) : keyed(q) /\ first(q) # q}}

\* a removal that always drops the row seen first
IndicesToRemove_DropsOriginal(pairs, keep) == {pr[1] : pr \in pairs}

\* remove_duplicates: the indices dropped for a list of pairs
IndicesToRemove(pairs, keep) ==
    IF keep = "last" THEN {pr[1] : pr \in pairs} ELSE {pr[2] : pr \in pairs}

\* df.drop(index=...): the rows left, in order
RECURSIVE DropRows(_, _, _)
DropRows(rows, removed, n) ==
    IF n > Len(rows) THEN <<>>
    ELSE IF n \in removed THEN DropRows(rows, removed, n + 1)
         ELSE <<rows[n]>> \o DropRows(rows, removed, n + 1)

\* main of remove_duplicates.py with --method name_and_link
RemoveDuplicatesMain(rows, keep) ==
    DropRows(rows, IndicesToRemove(FindDuplicatesByNameAndLink(rows), keep), 1)

DedupNames == {<<>>, <<"A">>}

DedupUrls == {<<>>, <<"u">>}

\* a row of the batch: id is its place in the input; the key column holds the
\* identity key write_csv gave it, or is empty
DedupRows ==
    { r \in [id : 1..MaxBatch, event_name : DedupNames, event_url : DedupUrls,
             event_name_and_link : {<<>>} \cup
                 {IdentityKey(n, u) : n \in DedupNames, u \in DedupUrls}] :
        r.event_name_and_link \in {<<>>, IdentityKey(r.event_name, r.event_url)} }

DedupBatches ==
    UNION { {b \in [1..n -> DedupRows] : \A k \in 1..n : b[k].id = k} : n \in 0..MaxBatch }

InitDedup ==
    /\ dd_impl \in {"remove_duplicate_events", "upsert_supabase_events", "remove_duplicates"}
    /\ dd_conflict \in IF dd_impl = "upsert_supabase_events"
                       THEN {"composite", "event_url"} ELSE {"none"}
    /\ dd_keep \in IF dd_impl = "remove_duplicates" THEN {"first", "last"} ELSE {"first"}
    /\ dd_rows \in DedupBatches
    /\ dd_out = <<>>
    /\ dd_pc = "ready"

\* the deduplication of the batch by the routine chosen
Deduplicate ==
    /\ dd_pc = "ready"
    /\ dd_out' = IF dd_impl = "remove_duplicate_events"
                 THEN RemoveDuplicateEvents(dd_rows, {})
                 ELSE IF dd_impl = "upsert_supabase_events"
                 THEN DedupPayloads(dd_conflict, dd_rows, {})
                 ELSE RemoveDuplicatesMain(dd_rows, dd_keep)
    /\ dd_pc' = "done"
    /\ UNCHANGED <<dd_impl, dd_conflict, dd_keep, dd_rows>>
    /\ UNCHANGED notDedup

NextDedup == Deduplicate

DedupStart == InitDedup /\ OthersIdle("dedup")

SpecDedup == DedupStart /\ [][NextDedup]_vars

\* the key a routine deduplicates a row by
DedupKey(row) ==
    IF dd_impl = "remove_duplicate_events" THEN CsvKey(row)
    ELSE IF dd_impl = "upsert_supabase_events" THEN UpsertKey(dd_conflict, row)
    ELSE PandasKey(row)

HasKey(row) == DedupKey(row) # NoKey /\ DedupKey(row) # KeyOf(<<>>)

\* the places of the input rows that show the key of row n
Occurrences(n) == {m \in 1..Len(dd_rows) : DedupKey(dd_rows[m]) = DedupKey(dd_rows[n])}

Survivors == {dd_out[a].id : a \in 1..Len(dd_out)}

\* the output is the input with rows left out: same rows, same order
OutputIsSubsequence ==
    /\ \A a \in 1..Len(dd_out) :
           dd_out[a].id \in 1..Len(dd_rows) /\ dd_rows[dd_out[a].id] = dd_out[a]
    /\ \A a, b \in 1..Len(dd_out) : a < b => dd_out[a].id < dd_out[b].id

\* C7: after a deduplication by identity key that keeps the first occurrence
\* (any of the three routines), no two rows of the output share a non-empty
\* key, and the row that survives for a key is its first occurrence in the input.
C7_FirstSeenUnique ==
    (dd_pc = "done" /\ dd_keep = "first") =>
        /\ OutputIsSubsequence
        /\ \A a, b \in 1..Len(dd_out) :
               (a # b /\ HasKey(dd_out[a])) => DedupKey(dd_out[a]) # DedupKey(dd_out[b])
        /\ \A n \in 1..Len(dd_rows) :
               HasKey(dd_rows[n]) =>
                   (n \in Survivors <=> \A m \in Occurrences(n) : n <= m)

\* a key shown three times has been deduplicated by remove_duplicates.py
C7_Witness ==
    /\ dd_pc = "done" /\ dd_keep = "first" /\ dd_impl = "remove_duplicates"
    /\ Len(dd_rows) = 3
    /\ HasKey(dd_rows[1])
    /\ Occurrences(1) = {1, 2, 3}
    /\ Survivors = {1}

\* C8: every row whose key is empty or missing is in the deduplicated output.
C8_KeylessRowsRetained ==
    dd_pc = "done" =>
        \A n \in 1..Len(dd_rows) : ~HasKey(dd_rows[n]) => n \in Survivors

\* C9: with --keep last, for every key shown any number of times the output
\* holds exactly one row with that key, its last occurrence in the input.
C9_LastSeenUnique ==
    (dd_pc = "done" /\ dd_impl = "remove_duplicates" /\ dd_keep = "last") =>
        \A n \in 1..Len(dd_rows) :
            HasKey(dd_rows[n]) =>
                (n \in Survivors <=> \A m \in Occurrences(n) : m <= n)

(***************************************************************************)
(* upload_events_to_supabase (load_to_supabase.py and                      *)
(* load_to_supabase_service.py, equal but for the default batch size).     *)
(* The store answers a submission as a whole: it raises for a submission   *)
(* that holds a malformed record or twice the same conflict key, it may    *)
(* raise for any other reason, and otherwise it returns the rows it took.  *)
(***************************************************************************)
MaxUpload == 3

MaxBatchSize == 3

UploadKeys == {"k1", "k2"}

UploadRecords == [malformed : BOOLEAN, event_name_and_link : UploadKeys]

Min(a, b) == IF a < b THEN a ELSE b

\* events[i:i + batch_size], as the places of its records
BatchPlaces(n, at, size) == (at + 1)..Min(at + size, n)

PlacesInOrder(S) == [k \in 1..Cardinality(S) |-> CHOOSE m \in S : Cardinality({q \in S : q < m}) = k - 1]

\* a submission the store cannot take
StoreMustReject(recs, places) ==
    \/ \E m \in places : recs[m].malformed
    \/ \E m, q \in places :
           m # q /\ recs[m].event_name_and_link = recs[q].event_name_and_link

InitUpload ==
    /\ up_events \in UNION {[1..n -> UploadRecords] : n \in 0..MaxUpload}
    /\ up_batch_size \in 1..MaxBatchSize
    /\ up_i = 0
    /\ up_j = 0
    /\ up_pc = "batch"
    /\ total_uploaded = 0
    /\ up_log = <<>>

\* total_uploaded += len(response.data) after a batch the store took
AfterBatch(total, places) == total + Cardinality(places)

\* a fallback that counts a record whether or not the store took it
AfterIndividual_CountsAll(total, accepted) == total + 1

\* total_uploaded += 1 after a single record the store took
AfterIndividual(total, accepted) == IF accepted THEN total + 1 ELSE total

\* the try block of one pass of `for i in range(0, len(events), batch_size)`
SubmitBatch ==
    /\ up_pc = "batch"
    /\ up_i < Len(up_events)
    /\ \E store_raises \in BOOLEAN :
         LET places   == BatchPlaces(Len(up_events), up_i, up_batch_size)
             accepted == ~store_raises /\ ~StoreMustReject(up_events, places)
         IN  /\ up_log' = Append(up_log, [single |-> FALSE, accepted |-> accepted,
                                          rows |-> PlacesInOrder(places)])
             /\ IF accepted
                THEN /\ total_uploaded' = AfterBatch(total_uploaded, places)
                     /\ up_i' = up_i + up_batch_size
                     /\ up_pc' = "batch"
                ELSE /\ total_uploaded' = total_uploaded
                     /\ up_i' = up_i
                     /\ up_pc' = "individual"
    /\ up_j' = 0
    /\ UNCHANGED <<up_events, up_batch_size>>
    /\ UNCHANGED notUpload

\* one pass of `for j, event in enumerate(batch)` in the except block
SubmitIndividual ==
    /\ up_pc = "individual"
    /\ \E store_raises \in BOOLEAN :
         LET places   == BatchPlaces(Len(up_events), up_i, up_batch_size)
             place    == up_i + up_j + 1
             accepted == ~store_raises /\ ~StoreMustReject(up_events, {place})
         IN  /\ up_log' = Append(up_log, [single |-> TRUE, accepted |-> accepted,
                                          rows |-> <<place>>])
             /\ total_uploaded' = AfterIndividual(total_uploaded, accepted)
             /\ IF up_j + 1 >= Cardinality(places)
                THEN up_i' = up_i + up_batch_size /\ up_j' = 0 /\ up_pc' = "batch"
                ELSE up_i' = up_i /\ up_j' = up_j + 1 /\ up_pc' = "individual"
    /\ UNCHANGED <<up_events, up_batch_size>>
    /\ UNCHANGED notUpload

\* return total_uploaded
ReturnTotal ==
    /\ up_pc = "batch"
    /\ up_i >= Len(up_events)
    /\ up_pc' = "done"
    /\ UNCHANGED <<up_events, up_batch_size, up_i, up_j, total_uploaded, up_log>>
    /\ UNCHANGED notUpload

NextUpload ==
    \/ SubmitBatch
    \/ SubmitIndividual
    \/ ReturnTotal

UploadStart == InitUpload /\ OthersIdle("upload")

SpecUpload == UploadStart /\ [][NextUpload]_vars

\* the records the store has taken, counted over the submissions
RECURSIVE AcceptedCount(_)
AcceptedCount(log) ==
    IF log = <<>> THEN 0
    ELSE AcceptedCount(Tail(log)) + (IF log[1].accepted THEN Len(log[1].rows) ELSE 0)

\* C10: when the store rejects a batch every record of it is resubmitted alone,
\* in order; a record rejected alone is skipped and the rest of the batch and
\* the later batches are still submitted; the total returned is the number of
\* records the store took (2 for a batch of 3 whose second record is malformed
\* and whose other records are taken).
C10_FallbackCountsAccepted ==
    /\ up_pc \in {"idle", "batch", "individual", "done"}
    /\ total_uploaded = AcceptedCount(up_log)
    /\ up_pc = "done" =>
           /\ \A a \in 1..Len(up_log) :
                  (~up_log[a].single /\ ~up_log[a].accepted) =>
                      \A k \in 1..Len(up_log[a].rows) :
                          /\ a + k <= Len(up_log)
                          /\ up_log[a + k].single
                          /\ up_log[a + k].rows = <<up_log[a].rows[k]>>
           /\ \A m \in 1..Len(up_events) :
                  \E a \in 1..Len(up_log) :
                      \E k \in 1..Len(up_log[a].rows) : up_log[a].rows[k] = m
           /\ ( /\ Len(up_events) = 3 /\ up_batch_size >= 3
                /\ ~up_events[1].malformed /\ up_events[2].malformed
                /\ ~up_events[3].malformed
                /\ \A a \in 1..Len(up_log) :
                       (up_log[a].single /\ up_log[a].rows # <<2>>) => up_log[a].accepted )
              => total_uploaded = 2

\* a batch of 3 whose second record is malformed has been uploaded: rejected as
\* a batch, then taken record by record but for the second
C10_Witness ==
    /\ up_pc = "done"
    /\ Len(up_events) = 3 /\ up_batch_size >= 3
    /\ up_events[2].malformed
    /\ Len(up_log) = 4
    /\ ~up_log[1].accepted /\ up_log[2].accepted /\ ~up_log[3].accepted /\ up_log[4].accepted
    /\ total_uploaded = 2

(***************************************************************************)
(* upsert_supabase_events (root copy): the posting loop.  The payloads are *)
(* the deduplicated ones; a request answers with a status and a body, or   *)
(* requests.post raises.                                                   *)
(***************************************************************************)
MaxPayloads == 3

MaxChunk == 2

HttpStatuses == {200, 201, 400, 409, 500}

\* a body that is a JSON list of the rows taken, no content, or a JSON object
ResponseBodies == {"rows", "empty", "object"}

\* resp.status_code >= 400
IsErrorStatus(status) == status >= 400

\* len(data) if isinstance(data, list) else 0, data being [] without content
RowsReported(body, places) == IF body = "rows" THEN Cardinality(places) ELSE 0

InitUpsert ==
    upsert \in [pc : {"start"}, n : 0..MaxPayloads, batch_size : 1..MaxChunk,
                i : {0}, total : {0}, log : {<<>>}]

\* if not events: return 0
ReturnZero ==
    /\ upsert.pc = "start"
    /\ upsert.n = 0
    /\ upsert' = [upsert EXCEPT !.pc = "returned"]
    /\ UNCHANGED notUpsert

\* the payloads are built and deduplicated; the posting loop begins
BuildPayloads ==
    /\ upsert.pc = "start"
    /\ upsert.n > 0
    /\ upsert' = [upsert EXCEPT !.pc = "post"]
    /\ UNCHANGED notUpsert

\* one pass of `for i in range(0, len(payloads), batch_size)`
PostChunk ==
    /\ upsert.pc = "post"
    /\ upsert.i < upsert.n
    /\ \E status \in HttpStatuses, body \in ResponseBodies :
         LET places == BatchPlaces(upsert.n, upsert.i, upsert.batch_size)
             entry  == [places |-> places, status |-> status]
         IN  upsert' =
                 IF IsErrorStatus(status)
                 THEN [upsert EXCEPT !.pc = "raised", !.log = Append(@, entry)]
                 ELSE [upsert EXCEPT !.total = @ + RowsReported(body, places),
                                     !.i = @ + upsert.batch_size,
                                     !.log = Append(@, entry)]
    /\ UNCHANGED notUpsert

\* requests.post raises (no connection, timeout): nothing catches it
PostRaises ==
    /\ upsert.pc = "post"
    /\ upsert.i < upsert.n
    /\ upsert' = [upsert EXCEPT !.pc = "raised"]
    /\ UNCHANGED notUpsert

\* return total
ReturnCount ==
    /\ upsert.pc = "post"
    /\ upsert.i >= upsert.n
    /\ upsert' = [upsert EXCEPT !.pc = "returned"]
    /\ UNCHANGED notUpsert

NextUpsert ==
    \/ ReturnZero
    \/ BuildPayloads
    \/ PostChunk
    \/ PostRaises
    \/ ReturnCount

UpsertStart == InitUpsert /\ OthersIdle("upsert")

SpecUpsert == UpsertStart /\ [][NextUpsert]_vars

\* the payloads some request of the log carried
Submitted == UNION {upsert.log[a].places : a \in 1..Len(upsert.log)}

\* C11: a response with an error status aborts only that batch submission: the
\* run is not aborted, the records of the batch are resubmitted one by one, the
\* later batches are still submitted, and the function returns.
C11_ErrorStatusFallsBack ==
    \A a \in 1..Len(upsert.log) :
        IsErrorStatus(upsert.log[a].status) =>
            /\ upsert.pc # "raised"
            /\ upsert.pc = "returned" =>
                   /\ Submitted = 1..upsert.n
                   /\ \A m \in upsert.log[a].places :
                          \E b \in (a + 1)..Len(upsert.log) : upsert.log[b].places = {m}

(***************************************************************************)
(* Two runs of upload_events_to_supabase over the same records against one *)
(* store.  Every submission is one request, which the store serves as a    *)
(* whole; the store merges the rows of a request it takes on the conflict  *)
(* column event_name_and_link and fails only for what the request holds.   *)
(***************************************************************************)
MaxShared == 3

MaxRunBatch == 2

RunIds == {1, 2}

RowContents == {"a", "b"}

SharedRecords == [malformed : BOOLEAN, event_name_and_link : UploadKeys, content : RowContents]

EmptyStore == [k \in {} |-> "a"]

\* an upsert that leaves a row already stored as it is
Merge_KeepsStored(store, recs, places) ==
    LET keys == {recs[m].event_name_and_link : m \in places}
    IN  [k \in DOMAIN store \cup keys |->
            IF k \in DOMAIN store THEN store[k]
            ELSE recs[CHOOSE m \in places : recs[m].event_name_and_link = k].content]

\* upsert(rows, on_conflict='event_name_and_link') of rows the store takes:
\* a row replaces the stored row with its key
Merge(store, recs, places) ==
    LET keys == {recs[m].event_name_and_link : m \in places}
    IN  [k \in DOMAIN store \cup keys |->
            IF k \in keys
            THEN recs[CHOOSE m \in places : recs[m].event_name_and_link = k].content
            ELSE store[k]]

InitRuns ==
    runs \in [pc : {"running"},
              events : UNION {[1..n -> SharedRecords] : n \in 1..MaxShared},
              store : {EmptyStore},
              run : [RunIds -> [batch_size : 1..MaxRunBatch, i : {0}, j : {0},
                                pc : {"batch"}, total : {0}]]]

\* the try block of one pass of the batch loop of run r
RunSubmitBatch(r) ==
    /\ runs.pc = "running"
    /\ runs.run[r].pc = "batch"
    /\ runs.run[r].i < Len(runs.events)
    /\ LET me     == runs.run[r]
           places == BatchPlaces(Len(runs.events), me.i, me.batch_size)
       IN  runs' =
               IF StoreMustReject(runs.events, places)
               THEN [runs EXCEPT !.run[r].pc = "individual", !.run[r].j = 0]
               ELSE [runs EXCEPT !.store = Merge(@, runs.events, places),
                                 !.run[r].total = AfterBatch(@, places),
                                 !.run[r].i = @ + me.batch_size]
    /\ UNCHANGED notRuns

\* one pass of the fallback loop of run r
RunSubmitIndividual(r) ==
    /\ runs.pc = "running"
    /\ runs.run[r].pc = "individual"
    /\ LET me       == runs.run[r]
           places   == BatchPlaces(Len(runs.events), me.i, me.batch_size)
           place    == me.i + me.j + 1
           accepted == ~StoreMustReject(runs.events, {place})
           last     == me.j + 1 >= Cardinality(places)
       IN  runs' = [runs EXCEPT
                       !.store = IF accepted THEN Merge(@, runs.events, {place}) ELSE @,
                       !.run[r].total = AfterIndividual(@, accepted),
                       !.run[r].i = IF last THEN @ + me.batch_size ELSE @,
                       !.run[r].j = IF last THEN 0 ELSE @ + 1,
                       !.run[r].pc = IF last THEN "batch" ELSE "individual"]
    /\ UNCHANGED notRuns

\* run r returns its total
RunReturns(r) ==
    /\ runs.pc = "running"
    /\ runs.run[r].pc = "batch"
    /\ runs.run[r].i >= Len(runs.events)
    /\ runs' = [runs EXCEPT !.run[r].pc = "done"]
    /\ UNCHANGED notRuns

NextRuns ==
    \E r \in RunIds :
        \/ RunSubmitBatch(r)
        \/ RunSubmitIndividual(r)
        \/ RunReturns(r)

RunsStart == InitRuns /\ OthersIdle("runs")

SpecRuns == RunsStart /\ [][NextRuns]_vars

\* the store a single run leaves: every record the store takes, alone or in
\* its batch, in the order of the records
RECURSIVE StoreOfOneRun(_, _, _)
StoreOfOneRun(recs, n, store) ==
    IF n > Len(recs) THEN store
    ELSE StoreOfOneRun(recs, n + 1,
             IF recs[n].malformed THEN store ELSE Merge(store, recs, {n}))

\* the record that is the last of its key among the records the store takes
LastOfKey(recs, k) ==
    CHOOSE m \in 1..Len(recs) :
        /\ ~recs[m].malformed /\ recs[m].event_name_and_link = k
        /\ \A q \in (m + 1)..Len(recs) :
               recs[q].malformed \/ recs[q].event_name_and_link # k

BothRunsDone == \A r \in RunIds : runs.pc = "running" /\ runs.run[r].pc = "done"

\* C12: however the submissions of the two runs interleave, once both have
\* returned the store holds what a single run leaves: one row per identity
\* key, the row of the last record with that key that the store takes.
C12_RunsConverge ==
    (runs.pc = "running" /\ BothRunsDone) =>
        /\ runs.store = StoreOfOneRun(runs.events, 1, EmptyStore)
        /\ DOMAIN runs.store =
               {runs.events[m].event_name_and_link :
                    m \in {q \in 1..Len(runs.events) : ~runs.events[q].malformed}}
        /\ \A k \in DOMAIN runs.store :
               runs.store[k] = runs.events[LastOfKey(runs.events, k)].content

\* both runs have returned after uploading two records with one key and
\* different contents, in batches of different sizes
C12_Witness ==
    /\ runs.pc = "running" /\ BothRunsDone
    /\ Len(runs.events) = 3
    /\ runs.run[1].batch_size # runs.run[2].batch_size
    /\ \E m, q \in 1..3 :
           /\ m < q
           /\ ~runs.events[m].malformed /\ ~runs.events[q].malformed
           /\ runs.events[m].event_name_and_link = runs.events[q].event_name_and_link
           /\ runs.events[m].content # runs.events[q].content
    /\ runs.run[1].total > 0

(***************************************************************************)
(* investigate_url_conflicts: the stored records are grouped by event_url, *)
(* every group of more than one record is sorted by quality score, its     *)
(* first record is kept and the others are marked for deletion.            *)
(***************************************************************************)
MaxStored == 3

Rep(c, n) == [k \in 1..n |-> c]

\* names: a placeholder, one of 11 characters, one of 21
StoredNames == {<<"[", "S", "F", "]">>, Rep("x", 11), Rep("x", 21)}

RecentStamp == <<"2","0","2","5","-","0","9","-","2","2">>

OlderStamp == <<"2","0","2","5","-","0","9","-","2","1">>

\* description, location and updated_at of a stored record
StoredDetails ==
    { [event_description |-> Rep("d", 51), event_location |-> <<"n","a","n">>,
       updated_at |-> OlderStamp \o <<"T","0","9">>],
      [event_description |-> Rep("d", 50), event_location |-> <<"S","F">>,
       updated_at |-> RecentStamp \o <<"T","0","9">>] }

\* updated_at of a record whose column is null (None in the fetched row)
NullStamp == <<"null">>

StoredUrls == {<<>>, <<"#">>, <<"u","1">>, <<"u","2">>}

StartsWith(s, prefix) == Len(s) >= Len(prefix) /\ SubSeq(s, 1, Len(prefix)) = prefix

EndsWith(s, suffix) ==
    Len(s) >= Len(suffix) /\ SubSeq(s, Len(s) - Len(suffix) + 1, Len(s)) = suffix

StoredRecord(id, name, url, d) ==
    [id |-> id, event_name |-> name, event_url |-> url,
     event_description |-> d.event_description,
     event_location |-> d.event_location, updated_at |-> d.updated_at]

\* event_quality_score
EventQualityScore(event) ==
    (IF Len(event.event_name) > 10 THEN 10 ELSE 0)
  + (IF Len(event.event_name) > 20 THEN 5 ELSE 0)
  + (IF ~StartsWith(event.event_name, <<"[">>) /\ ~EndsWith(event.event_name, <<"]">>)
     THEN 20 ELSE 0)
  + (IF event.event_description # <<>> /\ Len(event.event_description) > 50 THEN 10 ELSE 0)
  + (IF event.event_location # <<>> /\ event.event_location # <<"n","a","n">> THEN 5 ELSE 0)
  + (IF StartsWith(event.updated_at, RecentStamp) THEN 15 ELSE 0)

\* a grouping that takes the placeholder '#' for a URL
RECURSIVE UrlsInOrder_KeepsPlaceholder(_, _)
UrlsInOrder_KeepsPlaceholder(stored, seen) ==
    IF stored = <<>> THEN <<>>
    ELSE LET url == stored[1].event_url
         IN  IF url # <<>> /\ url \notin seen
             THEN <<url>> \o UrlsInOrder_KeepsPlaceholder(Tail(stored), seen \cup {url})
             ELSE UrlsInOrder_KeepsPlaceholder(Tail(stored), seen)

\* url_groups: the URLs in the order they first appear, '' and '#' left out
RECURSIVE UrlsInOrder(_, _)
UrlsInOrder(stored, seen) ==
    IF stored = <<>> THEN <<>>
    ELSE LET url == stored[1].event_url
         IN  IF url # <<>> /\ url # <<"#">> /\ url \notin seen
             THEN <<url>> \o UrlsInOrder(Tail(stored), seen \cup {url})
             ELSE UrlsInOrder(Tail(stored), seen)

\* url_groups[url]: the records of a URL, in stored order
UrlGroup(stored, url) == SelectSeq(stored, LAMBDA e : e.event_url = url)

\* a sorted list with one more record: behind every record that does not score
\* less (the sort is stable)
RECURSIVE InsertByQuality(_, _)
InsertByQuality(sorted, e) ==
    IF sorted = <<>> THEN <<e>>
    ELSE IF EventQualityScore(sorted[1]) >= EventQualityScore(e)
         THEN <<sorted[1]>> \o InsertByQuality(Tail(sorted), e)
         ELSE <<e>> \o sorted

\* a sort that puts the lowest score first
RECURSIVE SortedByQuality_Ascending(_)
SortedByQuality_Ascending(group) ==
    IF group = <<>> THEN <<>>
    ELSE LET rest == SortedByQuality_Ascending(Tail(group))
             less == SelectSeq(rest, LAMBDA e : EventQualityScore(e) < EventQualityScore(group[1]))
             more == SelectSeq(rest, LAMBDA e : EventQualityScore(e) >= EventQualityScore(group[1]))
         IN  less \o <<group[1]>> \o more

\* sorted(url_events, key=event_quality_score, reverse=True)
RECURSIVE SortedByQuality(_)
SortedByQuality(group) ==
    IF group = <<>> THEN <<>>
    ELSE InsertByQuality(SortedByQuality(SubSeq(group, 1, Len(group) - 1)),
                         group[Len(group)])

\* the loop over the conflicts: <<events_to_delete, events_to_keep>>
RECURSIVE AnalyzeConflicts(_, _)
AnalyzeConflicts(stored, urls) ==
    IF urls = <<>> THEN << <<>>, <<>> >>
    ELSE LET group  == UrlGroup(stored, urls[1])
             rest   == AnalyzeConflicts(stored, Tail(urls))
             sorted == SortedByQuality(group)
         IN  IF Len(group) > 1
             THEN << Tail(sorted) \o rest[1], <<sorted[1]>> \o rest[2] >>
             ELSE rest

\* event_quality_score raises on a record of a conflict whose updated_at is
\* None (None.startswith); only the records of a conflict are scored
ScoringRaises(stored, urls) ==
    \E k \in 1..Len(urls) :
        LET group == UrlGroup(stored, urls[k])
        IN  Len(group) > 1 /\ \E j \in 1..Len(group) : group[j].updated_at = NullStamp

\* fetched: the try block ran to its end; error: what made it fail
InitRecon ==
    recon = [pc |-> "start", stored |-> <<>>, fetched |-> FALSE, error |-> "none",
             events_to_delete |-> <<>>, events_to_keep |-> <<>>, deleted |-> {}]

\* a row whose updated_at is null
RowStoredWithoutStamp ==
    /\ recon.pc = "start"
    /\ Len(recon.stored) < MaxStored
    /\ \E d \in StoredDetails :
         recon' = [recon EXCEPT
                      !.stored = Append(@, StoredRecord(Len(@) + 1, Rep("x", 11), <<"u","1">>,
                                                        [d EXCEPT !.updated_at = NullStamp]))]
    /\ UNCHANGED notRecon

\* the table before the utility reads it: a row some earlier load has stored
RowStored ==
    /\ recon.pc = "start"
    /\ Len(recon.stored) < MaxStored
    /\ \E name \in StoredNames, url \in StoredUrls, d \in StoredDetails :
         recon' = [recon EXCEPT
                      !.stored = Append(@, StoredRecord(Len(@) + 1, name, url, d))]
    /\ UNCHANGED notRecon

\* the body of the try block; an exception while scoring is caught by the
\* handler of the function, which returns [], []
Investigate ==
    /\ recon.pc = "start"
    /\ LET urls   == UrlsInOrder(recon.stored, {})
           marked == AnalyzeConflicts(recon.stored, urls)
       IN  IF ScoringRaises(recon.stored, urls)
           THEN recon' = [recon EXCEPT !.pc = "returned", !.error = "score"]
           ELSE recon' = [recon EXCEPT !.pc = "returned", !.fetched = TRUE,
                                       !.events_to_delete = marked[1],
                                       !.events_to_keep = marked[2]]
    /\ UNCHANGED notRecon

\* the client or the select raises: return [], []
InvestigateFails ==
    /\ recon.pc = "start"
    /\ recon' = [recon EXCEPT !.pc = "returned", !.error = "client"]
    /\ UNCHANGED notRecon

\* main: clean_up_duplicates(events_to_delete) when the list is not empty.
\* The list is shorter than a batch of 50, so there is one delete request,
\* which is served or raises.
CleanUpDuplicates ==
    /\ recon.pc = "returned"
    /\ \E outcome \in {"served", "raise"} :
         recon' = [recon EXCEPT
                      !.pc = "cleaned",
                      !.deleted = IF recon.events_to_delete # <<>> /\ outcome = "served"
                                  THEN {recon.events_to_delete[k].id :
                                           k \in 1..Len(recon.events_to_delete)}
                                  ELSE {}]
    /\ UNCHANGED notRecon

NextRecon ==
    \/ RowStored
    \/ RowStoredWithoutStamp
    \/ Investigate
    \/ InvestigateFails
    \/ CleanUpDuplicates

ReconStart == InitRecon /\ OthersIdle("recon")

SpecRecon == ReconStart /\ [][NextRecon]_vars

IdsOf(list) == {list[k].id : k \in 1..Len(list)}

\* the stored records that show a URL
WithUrl(url) == {k \in 1..Len(recon.stored) : recon.stored[k].event_url = url}

\* what the claim asks for one URL: all its records but one are marked, and the
\* one kept scores at least as high as every marked one
ResolvedUrl(url) ==
    \E keep \in WithUrl(url) :
        /\ IdsOf(recon.events_to_delete) \cap WithUrl(url) = WithUrl(url) \ {keep}
        /\ keep \in IdsOf(recon.events_to_keep)
        /\ \A k \in WithUrl(url) \ {keep} :
               EventQualityScore(recon.stored[keep]) >= EventQualityScore(recon.stored[k])

SharedUrls == {url \in StoredUrls : Cardinality(WithUrl(url)) > 1}

Investigated == recon.pc \in {"returned", "cleaned"}

\* C30: reconciliation never marks for deletion a record whose URL is empty
\* or '#' or is shared by no other record; no record is in both the keep list
\* and the delete list; and when the investigation fails with any error (a
\* failing client or select, a record of a conflict whose updated_at is null)
\* the delete list is empty and clean_up_duplicates deletes nothing.
C30_OnlySharedUrlsMarked ==
    Investigated =>
        /\ \A k \in IdsOf(recon.events_to_delete) :
               /\ recon.stored[k].event_url \notin {<<>>, <<"#">>}
               /\ Cardinality(WithUrl(recon.stored[k].event_url)) > 1
        /\ IdsOf(recon.events_to_delete) \cap IdsOf(recon.events_to_keep) = {}
        /\ (recon.error # "none" => recon.events_to_delete = <<>> /\ recon.deleted = {})
        /\ recon.deleted \subseteq IdsOf(recon.events_to_delete)

\* the scoring failed on a conflict with a null updated_at, and the cleanup
\* that followed deleted nothing
C30_Witness ==
    /\ recon.pc = "cleaned"
    /\ recon.error = "score"
    /\ Cardinality(WithUrl(<<"u","1">>)) > 1
    /\ \E k \in WithUrl(<<"#">>) : TRUE
    /\ recon.deleted = {}

(***************************************************************************)
(* The main functions: of the scraper (root copy and scraper copy), of the *)
(* loader load_to_supabase.py and of run_enhanced_scraper.py.  A run is    *)
(* its flags and environment, and what it has done so far: the events      *)
(* processed, what went to standard output, the file written, the input    *)
(* file read, the remote calls made, and how the process ended.            *)
(***************************************************************************)
MaxMainEvents == 2

Scripts == {"root_main", "scraper_main", "loader_main", "enhanced_main"}

\* the runs modelled: --json, --supabase and an output path ending in .json
\* exist in the scraper's main only (--supabase in the root copy only)
MainRuns ==
    { r \in [script : Scripts, emit_json : BOOLEAN, to_supabase : BOOLEAN,
             out_is_json : BOOLEAN, supabase_creds : BOOLEAN, openai_key : BOOLEAN,
             csv_exists : BOOLEAN, n : 0..MaxMainEvents] :
        /\ r.script \in {"loader_main", "enhanced_main"} =>
               ~r.emit_json /\ ~r.to_supabase /\ ~r.out_is_json
        /\ r.script = "scraper_main" => ~r.to_supabase
        /\ r.script = "root_main" => r.openai_key /\ r.csv_exists
        /\ r.script = "scraper_main" => r.supabase_creds /\ r.csv_exists
        /\ r.script = "enhanced_main" => r.supabase_creds /\ r.csv_exists
        /\ r.script = "loader_main" => r.openai_key }

InitMain ==
    mainrun \in { [pc |-> "start", run |-> r, processed |-> 0, scraped |-> FALSE,
                   stdout |-> <<>>, file |-> "none", file_rows |-> 0,
                   csv_read |-> FALSE, remote_calls |-> 0, status |-> 0] :
                  r \in MainRuns }

\* the process ends with an exit status: 0 when main returns, 1 for an
\* exception nothing catches, the argument of sys.exit otherwise
Exited(m, status) == [m EXCEPT !.pc = "exited", !.status = status]

Printed(m, what) == [m EXCEPT !.stdout = Append(@, what)]

\* write_csv(events, out): the file is opened and every event written
WriteCsv(m) == [m EXCEPT !.file = "csv", !.file_rows = m.run.n]

\* update_csv_with_keywords(out): the file is read, the classifier is called
\* for the events, the file is written again
TaggingPass(m) ==
    [Printed(m, "text") EXCEPT !.csv_read = TRUE, !.remote_calls = @ + m.run.n,
                               !.file = "csv", !.file_rows = m.run.n]

\* main of the root copy up to the call of scrape_events
RootMainStart ==
    /\ mainrun.pc = "start" /\ mainrun.run.script = "root_main"
    /\ mainrun' = [(IF mainrun.run.emit_json THEN mainrun ELSE Printed(mainrun, "text"))
                       EXCEPT !.pc = "scraping", !.scraped = TRUE]
    /\ UNCHANGED notMain

\* main of the scraper copy up to the call of scrape_events: the line
\* "Phase 1: Scraping events ..." is printed whatever the flags are
ScraperMainStart ==
    /\ mainrun.pc = "start" /\ mainrun.run.script = "scraper_main"
    /\ mainrun' = [Printed(IF mainrun.run.emit_json THEN mainrun
                           ELSE Printed(mainrun, "text"), "text")
                       EXCEPT !.pc = "scraping", !.scraped = TRUE]
    /\ UNCHANGED notMain

\* main of load_to_supabase.py up to the try block
LoaderMainStart ==
    /\ mainrun.pc = "start" /\ mainrun.run.script = "loader_main"
    /\ mainrun' = IF ~mainrun.run.supabase_creds \/ ~mainrun.run.csv_exists
                  THEN Exited(Printed(Printed(mainrun, "text"), "text"), 0)
                  ELSE [Printed(mainrun, "text") EXCEPT !.pc = "loading"]
    /\ UNCHANGED notMain

\* the try block of the loader's main: client, load_events_from_csv, upload
LoaderMainLoad ==
    /\ mainrun.pc = "loading"
    /\ \E raises \in BOOLEAN :
         LET read == [Printed(mainrun, "text") EXCEPT !.csv_read = TRUE]
         IN  mainrun' =
                 IF raises THEN Exited(read, 1)
                 ELSE IF mainrun.run.n = 0 THEN Exited(read, 0)
                 ELSE Exited([read EXCEPT !.remote_calls = @ + 1], 0)
    /\ UNCHANGED notMain

\* main of run_enhanced_scraper.py up to the call of scrape_events
EnhancedMainStart ==
    /\ mainrun.pc = "start" /\ mainrun.run.script = "enhanced_main"
    /\ mainrun' = IF ~mainrun.run.openai_key
                  THEN Exited(Printed(mainrun, "text"), 0)
                  ELSE [Printed(mainrun, "text") EXCEPT !.pc = "scraping", !.scraped = TRUE]
    /\ UNCHANGED notMain

\* scrape_events: one card of the loop over the card handles
MainScrapesCard ==
    /\ mainrun.pc = "scraping"
    /\ mainrun.processed < mainrun.run.n
    /\ mainrun' = [mainrun EXCEPT !.processed = @ + 1]
    /\ UNCHANGED notMain

\* scrape_events returns; its progress lines are printed by the scraper copy,
\* and only when emit_json is false
MainScrapeReturns ==
    /\ mainrun.pc = "scraping"
    /\ mainrun.processed = mainrun.run.n
    /\ \E progress \in BOOLEAN :
         /\ progress => (mainrun.run.script # "root_main" /\ ~mainrun.run.emit_json)
         /\ mainrun' = [(IF progress THEN Printed(mainrun, "text") ELSE mainrun)
                            EXCEPT !.pc = "output"]
    /\ UNCHANGED notMain

\* main of the root copy after scrape_events
RootMainOutput ==
    /\ mainrun.pc = "output" /\ mainrun.run.script = "root_main"
    /\ \E raises \in BOOLEAN :
         LET r == mainrun.run
         IN  mainrun' =
                 IF r.emit_json \/ r.out_is_json
                 THEN Exited(IF r.emit_json THEN Printed(mainrun, "json")
                             ELSE Printed([mainrun EXCEPT !.file = "json",
                                                          !.file_rows = r.n], "text"), 0)
                 ELSE IF r.to_supabase
                 THEN IF ~r.supabase_creds THEN Exited(mainrun, 2)
                      ELSE IF r.n = 0 THEN Exited(Printed(mainrun, "text"), 0)
                      ELSE IF raises THEN Exited([mainrun EXCEPT !.remote_calls = @ + 1], 1)
                      ELSE Exited(Printed([mainrun EXCEPT !.remote_calls = @ + 1], "text"), 0)
                 ELSE Exited(Printed(WriteCsv(Printed(mainrun, "text")), "text"), 0)
    /\ UNCHANGED notMain

\* main of the scraper copy after scrape_events: the JSON, or Phase 1's file
ScraperMainOutput ==
    /\ mainrun.pc = "output" /\ mainrun.run.script = "scraper_main"
    /\ mainrun' = IF mainrun.run.emit_json
                  THEN Exited(Printed(mainrun, "json"), 0)
                  ELSE [Printed(WriteCsv(Printed(mainrun, "text")), "text")
                            EXCEPT !.pc = "tagging"]
    /\ UNCHANGED notMain

\* main of run_enhanced_scraper.py after scrape_events
EnhancedMainOutput ==
    /\ mainrun.pc = "output" /\ mainrun.run.script = "enhanced_main"
    /\ mainrun' = IF mainrun.run.n = 0 THEN Exited(Printed(mainrun, "text"), 0)
                  ELSE [Printed(WriteCsv(Printed(mainrun, "text")), "text")
                            EXCEPT !.pc = "tagging"]
    /\ UNCHANGED notMain

\* Phase 2 of the scraper copy, Step 3 of the enhanced scraper
MainTagging ==
    /\ mainrun.pc = "tagging"
    /\ \E raises \in BOOLEAN :
         mainrun' =
             IF ~raises THEN Exited(Printed(TaggingPass(mainrun), "text"), 0)
             ELSE IF mainrun.run.script = "enhanced_main"
                  THEN Exited(Printed([mainrun EXCEPT !.csv_read = TRUE], "text"), 0)
                  ELSE Exited([mainrun EXCEPT !.csv_read = TRUE], 1)
    /\ UNCHANGED notMain

\* the process is terminated from outside
MainKilled ==
    /\ mainrun.pc \notin {"idle", "exited", "killed"}
    /\ mainrun' = [mainrun EXCEPT !.pc = "killed"]
    /\ UNCHANGED notMain

NextMain ==
    \/ RootMainStart
    \/ ScraperMainStart
    \/ LoaderMainStart
    \/ LoaderMainLoad
    \/ EnhancedMainStart
    \/ MainScrapesCard
    \/ MainScrapeReturns
    \/ RootMainOutput
    \/ ScraperMainOutput
    \/ EnhancedMainOutput
    \/ MainTagging
    \/ MainKilled

MainStart == InitMain /\ OthersIdle("main")

SpecMain == MainStart /\ [][NextMain]_vars

\* the credentials a run needs are missing
CredentialsMissing(r) ==
    \/ r.script = "root_main" /\ r.to_supabase /\ ~r.emit_json /\ ~r.out_is_json
          /\ ~r.supabase_creds
    \/ r.script = "loader_main" /\ ~r.supabase_creds
    \/ r.script = "enhanced_main" /\ ~r.openai_key

\* C14: a run whose required credentials are missing does no work (no page
\* scraped, no input file read, no remote call) and exits with a status other
\* than 0.
C14_MissingCredentialsAbort ==
    (mainrun.pc # "idle" /\ CredentialsMissing(mainrun.run)) =>
        /\ ~mainrun.scraped /\ ~mainrun.csv_read /\ mainrun.remote_calls = 0
        /\ mainrun.pc = "exited" => mainrun.status # 0

\* C15: a run with --json prints exactly one JSON array and writes no file; a
\* run without --json writes a tabular file and prints no JSON array.
C15_OutputModesExclusive ==
    (mainrun.pc = "exited" /\ mainrun.status = 0
        /\ mainrun.run.script \in {"root_main", "scraper_main"}) =>
        IF mainrun.run.emit_json
        THEN mainrun.stdout = <<"json">> /\ mainrun.file = "none"
        ELSE mainrun.file = "csv"
             /\ \A k \in 1..Len(mainrun.stdout) : mainrun.stdout[k] # "json"

\* the runs whose output is the tabular file
WritesTable(r) ==
    \/ r.script = "scraper_main" /\ ~r.emit_json
    \/ r.script = "enhanced_main" /\ r.openai_key
    \/ r.script = "root_main" /\ ~r.emit_json /\ ~r.out_is_json /\ ~r.to_supabase

\* C16: the record of every event processed is in the output before the next
\* event is processed: after k events the output holds k records, also when
\* the process is then terminated.
C16_OutputIsIncremental ==
    (mainrun.pc # "idle" /\ WritesTable(mainrun.run)) =>
        mainrun.file_rows >= mainrun.processed

(***************************************************************************)
(* Tag generators: generate_event_tags, generate_usage_tags and            *)
(* generate_industry_tags of src/scraper/scrape_tech_week_sf.py            *)
(***************************************************************************)
\* the longest classifier response, in pieces
MaxPieces == 3

valid_usage_tags ==
    { <<"f","i","n","d","-","c","o","f","o","u","n","d","e","r">>,
      <<"f","i","n","d","-","a","n","g","e","l","s">>,
      <<"f","i","n","d","-","a","d","v","i","s","o","r","s">>,
      <<"f","i","n","d","-","u","s","e","r","s">>,
      <<"g","e","t","-","u","s","e","r","-","f","e","e","d","b","a","c","k">>,
      <<"f","i","n","d","-","i","n","v","e","s","t","o","r","s">>,
      <<"f","i","n","d","-","t","a","l","e","n","t">>,
      <<"l","e","a","r","n","-","s","k","i","l","l","s">>,
      <<"i","n","d","u","s","t","r","y","-","i","n","s","i","g","h","t","s">>,
      <<"n","e","t","w","o","r","k","i","n","g">> }

valid_industry_tags ==
    { <<"a","i">>,
      <<"f","i","n","t","e","c","h">>,
      <<"w","e","l","l","n","e","s","s">>,
      <<"s","u","s","t","a","i","n","a","b","i","l","i","t","y">>,
      <<"b","l","o","c","k","c","h","a","i","n">>,
      <<"c","y","b","e","r","s","e","c","u","r","i","t","y">>,
      <<"s","t","a","r","t","u","p">>,
      <<"m","e","d","i","a">>,
      <<"e","n","t","e","r","p","r","i","s","e">>,
      <<"c","o","n","s","u","m","e","r">>,
      <<"g","a","m","i","n","g">>,
      <<"e","d","t","e","c","h">>,
      <<"b","i","o","t","e","c","h">>,
      <<"m","o","b","i","l","i","t","y">>,
      <<"r","e","a","l","-","e","s","t","a","t","e">>,
      <<"l","e","g","a","l">>,
      <<"h","r">>,
      <<"s","a","l","e","s">>,
      <<"m","a","r","k","e","t","i","n","g">> }

\* what a response is made of: labels of both vocabularies in either case,
\* an unknown label, separators, punctuation and a line break
ClassifierPieces ==
    { <<"n","e","t","w","o","r","k","i","n","g">>,
      <<"F","i","n","d","-","T","a","l","e","n","t">>,
      <<"a","i">>,
      <<"H","R">>,
      <<",">>,
      <<" ">>,
      <<"!">>,
      <<"w","e","b","3">>,
      <<"\n">> }

RECURSIVE PieceTexts(_)
PieceTexts(n) ==
    IF n = 0 THEN {<<>>}
    ELSE LET shorter == PieceTexts(n - 1)
         IN  shorter \cup {t \o p : t \in shorter, p \in ClassifierPieces}

\* the outcomes of client.chat.completions.create(...) and of reading
\* response.choices[0].message.content: the call raises, the content is
\* None, or the content is a text
ClassifierResponses ==
    {[kind |-> "raised", content |-> <<>>], [kind |-> "null", content |-> <<>>]}
        \cup {[kind |-> "text", content |-> t] : t \in PieceTexts(MaxPieces)}

\* `not description or len(description.strip()) < 10`
DescriptionTooShort(description) ==
    description = <<>> \/ Len(Strip(description)) < 10

\* the characters re.sub(r'[^\w\s,-]', '', text) keeps
IsTagChar(c) ==
    IsAlpha(c) \/ IsDigit(c) \/ c = "_" \/ IsSpace(c) \/ c = "," \/ c = "-"

RemoveSpecial(s) == SelectSeq(s, IsTagChar)

\* str.split(',')
RECURSIVE SplitComma(_)
SplitComma(s) ==
    IF \A k \in 1..Len(s) : s[k] # "," THEN <<s>>
    ELSE LET c == CHOOSE k \in 1..Len(s) : s[k] = "," /\ \A j \in 1..(k-1) : s[j] # ","
         IN  <<Slice(s, 1, c - 1)>> \o SplitComma(Slice(s, c + 1, Len(s)))

NonBlank(part) == Strip(part) # <<>>

\* content.strip(), the two re.sub calls, then
\* [tag.strip().lower() for tag in tags_text.split(',') if tag.strip()]
ParseTags(content) ==
    LET tags_text == CollapseSpaces(RemoveSpecial(Strip(content)))
        parts     == SelectSeq(SplitComma(tags_text), NonBlank)
    IN  [k \in 1..Len(parts) |-> Lower(Strip(parts[k]))]

\* a filter that lets every tag through
KeepValid_KeepsAll(tags, valid) == tags

\* [tag for tag in tags if tag in valid]
KeepValid(tags, valid) ==
    LET IsValid(tag) == tag \in valid
    IN  SelectSeq(tags, IsValid)

\* the body the three generators share up to the parsed list: no remote call
\* for a short description; any exception in the try block is caught and
\* gives []
ClassifierTags(description, response) ==
    IF DescriptionTooShort(description)
    THEN [called |-> FALSE, tags |-> <<>>]
    ELSE IF response.kind # "text"
         THEN [called |-> TRUE, tags |-> <<>>]
         ELSE [called |-> TRUE, tags |-> ParseTags(response.content)]

\* generate_event_tags returns the parsed list as it is
GenerateEventTags(description, response) == ClassifierTags(description, response)

GenerateUsageTags(description, response) ==
    LET res == ClassifierTags(description, response)
    IN  [res EXCEPT !.tags = KeepValid(res.tags, valid_usage_tags)]

GenerateIndustryTags(description, response) ==
    LET res == ClassifierTags(description, response)
    IN  [res EXCEPT !.tags = KeepValid(res.tags, valid_industry_tags)]

\* descriptions on both sides of the 10-character test
ClassifyDescriptions ==
    { <<>>, Rep("d", 9), Rep(" ", 3) \o Rep("d", 9) \o Rep(" ", 3), Rep("d", 10) }

InitClassify ==
    classify \in {[pc |-> "ready", fn |-> "none", description |-> d, response |-> r,
                   called |-> FALSE, tags |-> <<>>] :
                      d \in ClassifyDescriptions, r \in ClassifierResponses}

CallGenerateUsageTags ==
    /\ classify.pc = "ready"
    /\ LET res == GenerateUsageTags(classify.description, classify.response)
       IN  classify' = [classify EXCEPT !.pc = "returned", !.fn = "generate_usage_tags",
                                        !.called = res.called, !.tags = res.tags]
    /\ UNCHANGED notClassify

CallGenerateIndustryTags ==
    /\ classify.pc = "ready"
    /\ LET res == GenerateIndustryTags(classify.description, classify.response)
       IN  classify' = [classify EXCEPT !.pc = "returned", !.fn = "generate_industry_tags",
                                        !.called = res.called, !.tags = res.tags]
    /\ UNCHANGED notClassify

NextClassify == CallGenerateUsageTags \/ CallGenerateIndustryTags

ClassifyStart == InitClassify /\ OthersIdle("classify")

SpecClassify == ClassifyStart /\ [][NextClassify]_vars

\* the vocabulary of the generator that was called
VocabularyOf(fn) ==
    IF fn = "generate_usage_tags" THEN valid_usage_tags ELSE valid_industry_tags

\* one comma-separated item of the response as a label: punctuation removed,
\* trimmed, lower case
AsLabel(item) == Lower(Strip(CollapseSpaces(RemoveSpecial(item))))

\* the items of a response that are labels of the vocabulary, in response order
RecognizedLabels(content, valid) ==
    LET items == SplitComma(content)
        IsLabel(item) == AsLabel(item) \in valid
        kept  == SelectSeq(items, IsLabel)
    IN  [k \in 1..Len(kept) |-> AsLabel(kept[k])]

\* C19: whatever the classifier response is (a text, well formed or not, no
\* content, or a raised error), generate_usage_tags and generate_industry_tags
\* return a list whose every element is a label of their closed vocabulary;
\* for a text it is the recognized labels of the response in response order
\* and nothing else, and for a raised error it is the empty list.
C19_TagsWithinVocabulary ==
    classify.pc = "returned" =>
        /\ \A k \in 1..Len(classify.tags) : classify.tags[k] \in VocabularyOf(classify.fn)
        /\ (classify.response.kind # "text" => classify.tags = <<>>)
        /\ (classify.called /\ classify.response.kind = "text" =>
               classify.tags = RecognizedLabels(classify.response.content,
                                                VocabularyOf(classify.fn)))

\* a response carrying a recognized label and an unrecognized item was filtered
C19_Witness ==
    /\ classify.pc = "returned"
    /\ classify.called
    /\ classify.response.kind = "text"
    /\ classify.tags # <<>>
    /\ Len(classify.tags) < Len(ParseTags(classify.response.content))

(***************************************************************************)
(* The tagging pass: update_csv_with_keywords and is_women_specific_event  *)
(* of src/scraper/scrape_tech_week_sf.py                                   *)
(***************************************************************************)
\* the most rows of a results file
MaxTagRows == 2

women_keywords ==
    { <<"w","o","m","e","n">>,
      <<"f","e","m","a","l","e">>,
      <<"l","a","d","i","e","s">>,
      <<"g","i","r","l","s">>,
      <<"s","h","e">>,
      <<"h","e","r">>,
      <<"w","o","m","e","n"," ","i","n"," ","t","e","c","h">>,
      <<"w","o","m","e","n"," ","i","n"," ","a","i">>,
      <<"w","o","m","e","n"," ","f","o","u","n","d","e","r","s">>,
      <<"w","o","m","e","n"," ","e","n","t","r","e","p","r","e","n","e","u","r","s">>,
      <<"w","o","m","e","n"," ","l","e","a","d","e","r","s">>,
      <<"f","e","m","a","l","e"," ","f","o","u","n","d","e","r","s">>,
      <<"f","e","m","a","l","e"," ","e","n","t","r","e","p","r","e","n","e","u","r","s">>,
      <<"f","e","m","a","l","e"," ","l","e","a","d","e","r","s">>,
      <<"w","o","m","e","n","-","o","n","l","y">>,
      <<"w","o","m","e","n"," ","o","n","l","y">>,
      <<"l","a","d","i","e","s"," ","o","n","l","y">>,
      <<"f","e","m","a","l","e"," ","o","n","l","y">>,
      <<"w","o","m","e","n","'","s">>,
      <<"w","o","m","e","n","s">>,
      <<"s","h","e","-">>,
      <<"h","e","r","-">>,
      <<"w","o","m","e","n","-">>,
      <<"f","e","m","a","l","e","-">>,
      <<"d","i","v","e","r","s","i","t","y"," ","a","n","d"," ","i","n","c","l","u","s","i","o","n">>,
      <<"d","i","v","e","r","s","i","t","y"," ","&"," ","i","n","c","l","u","s","i","o","n">>,
      <<"i","n","c","l","u","s","i","v","e">>,
      <<"w","o","m","e","n"," ","i","n">>,
      <<"f","e","m","a","l","e"," ","i","n">>,
      <<"l","a","d","i","e","s"," ","i","n">> }

\* is_women_specific_event: a keyword test over the lower-cased
\* "name description host"; False without looking only when both the
\* description and the name are empty
IsWomenSpecificEvent(description, event_name, hosted_by) ==
    IF description = <<>> /\ event_name = <<>> THEN FALSE
    ELSE LET full_text == Lower(event_name \o <<" ">> \o description \o <<" ">> \o hosted_by)
         IN  \E keyword \in women_keywords : Contains(full_text, keyword)

\* the rows of a results file: descriptions that are empty, 9 characters
\* long and long enough; names and hosts with and without a keyword
TagDescriptions ==
    { <<>>,
      <<"f","o","r"," ","w","o","m","e","n">>,
      <<"A","I"," ","f","o","u","n","d","e","r","s"," ","m","e","e","t","u","p">> }

TagNames ==
    { <<>>,
      <<"W","o","m","e","n"," ","i","n"," ","A","I">>,
      <<"D","e","m","o"," ","D","a","y">> }

TagHosts ==
    { <<>>,
      <<"H","e","r"," ","C","o">> }

TagRows ==
    {[event_description |-> d, event_name |-> n, hosted_by |-> h] :
        d \in TagDescriptions, n \in TagNames, h \in TagHosts}

TagFiles == UNION {[1..n -> TagRows] : n \in 0..MaxTagRows}

\* what the classifier answers during a pass
TagResponses ==
    { [kind |-> "raised", content |-> <<>>],
      [kind |-> "text", content |-> <<"A","I",","," ","N","e","t","w","o","r","k","i","n","g",","," ","w","e","b","3","!">>] }

Calls(res) == IF res.called THEN 1 ELSE 0

InitTagging ==
    tagging \in {[pc |-> "read", csv |-> f, events |-> <<>>, i |-> 0,
                  remote_calls |-> 0, row_calls |-> <<>>] : f \in TagFiles}

\* the file is read whole into events
TaggingReadCsv ==
    /\ tagging.pc = "read"
    /\ tagging' = [tagging EXCEPT !.pc = "loop", !.events = tagging.csv, !.i = 1]
    /\ UNCHANGED notTagging

\* one iteration of the loop: the three generators and the keyword test
TagEvent ==
    /\ tagging.pc = "loop"
    /\ tagging.i <= Len(tagging.events)
    /\ \E r1 \in TagResponses, r2 \in TagResponses, r3 \in TagResponses :
         LET event       == tagging.events[tagging.i]
             description == event.event_description
             tags        == GenerateEventTags(description, r1)
             usage_tags  == GenerateUsageTags(description, r2)
             industry    == GenerateIndustryTags(description, r3)
             women       == IsWomenSpecificEvent(description, event.event_name,
                                                 event.hosted_by)
             made        == Calls(tags) + Calls(usage_tags) + Calls(industry)
             tagged      == [event_description |-> description,
                             event_name     |-> event.event_name,
                             hosted_by      |-> event.hosted_by,
                             event_tags     |-> tags.tags,
                             usage_tags     |-> usage_tags.tags,
                             industry_tags  |-> industry.tags,
                             women_specific |-> women]
         IN  tagging' = [tagging EXCEPT
                            !.events = [k \in 1..Len(tagging.events) |->
                                           IF k = tagging.i THEN tagged
                                           ELSE tagging.events[k]],
                            !.i = tagging.i + 1,
                            !.remote_calls = tagging.remote_calls + made,
                            !.row_calls = Append(tagging.row_calls, made)]
    /\ UNCHANGED notTagging

\* the updated rows replace the file
TaggingWriteCsv ==
    /\ tagging.pc = "loop"
    /\ tagging.i > Len(tagging.events)
    /\ tagging' = [tagging EXCEPT !.pc = "done", !.csv = tagging.events]
    /\ UNCHANGED notTagging

NextTagging == TaggingReadCsv \/ TagEvent \/ TaggingWriteCsv

TaggingStart == InitTagging /\ OthersIdle("tagging")

SpecTagging == TaggingStart /\ [][NextTagging]_vars

\* C18: every event the tagging pass has processed whose description is empty
\* or shorter than 10 characters cost no remote classifier call and carries
\* the all-empty categorization: no event_tags, no usage_tags, no
\* industry_tags and women_specific = false, whatever its name and host are.
C18_ShortDescriptionGivesEmptyCategorization ==
    tagging.pc \in {"loop", "done"} =>
        \A k \in 1..(tagging.i - 1) :
            DescriptionTooShort(tagging.events[k].event_description) =>
                /\ tagging.row_calls[k] = 0
                /\ tagging.events[k].event_tags = <<>>
                /\ tagging.events[k].usage_tags = <<>>
                /\ tagging.events[k].industry_tags = <<>>
                /\ tagging.events[k].women_specific = FALSE

(***************************************************************************)
(* clean_event_time on its own and as scrape_events calls it               *)
(* (src/scraper/scrape_tech_week_sf.py)                                    *)
(***************************************************************************)
\* the longest time field, in pieces
MaxTimePieces == 2

\* what a time field is made of: times in the spellings the pattern takes and
\* in one it does not, invite-only phrases, filler and white space
TimePieces ==
    { <<"6",":","0","0"," ","p","m">>,
      <<"1","2",":","3","0","P","M">>,
      <<"1","0",":","0","0"," "," ","a","m">>,
      <<"7",":","1","5"," ","P","m">>,
      <<"I","n","v","i","t","e"," ","O","n","l","y">>,
      <<"p","r","i","v","a","t","e"," ">>,
      <<" ">>,
      <<"f","r","o","m"," ">> }

RECURSIVE TimeFields(_)
TimeFields(n) ==
    IF n = 0 THEN {<<>>}
    ELSE LET shorter == TimeFields(n - 1)
         IN  shorter \cup {t \o p : t \in shorter, p \in TimePieces}

TimeDescriptions ==
    { <<>>,
      <<"T","h","i","s"," ","i","s"," ","i","n","v","i","t","a","t","i","o","n"," ","o","n","l","y",".">>,
      <<"D","o","o","r","s"," ","a","t"," ","6",":","0","0"," ","p","m">>,
      <<"l","i","m","i","t","e","d","-","a","v","a","i","l","a","b","i","l","i","t","y">> }

InitCleaning ==
    cleaning \in {[pc |-> "ready", time_str |-> t, desc |-> d, field |-> <<>>,
                   time |-> <<>>, invite_only |-> FALSE] :
                      t \in TimeFields(MaxTimePieces), d \in TimeDescriptions}

\* clean_event_time(time_str, description) called with the strings as they are
CallCleanEventTime ==
    /\ cleaning.pc = "ready"
    /\ LET res == CleanEventTime(cleaning.time_str, cleaning.desc)
       IN  cleaning' = [cleaning EXCEPT !.pc = "returned", !.field = cleaning.time_str,
                                        !.time = res[1], !.invite_only = res[2]]
    /\ UNCHANGED notCleaning

\* scrape_events: clean_event_time(_clean_text(time_str), _clean_text(desc)),
\* the result stored as event_time and invite_only of the Event
ScrapeEventsCleansTime ==
    /\ cleaning.pc = "ready"
    /\ LET res == CleanEventTime(CleanText(cleaning.time_str), CleanText(cleaning.desc))
       IN  cleaning' = [cleaning EXCEPT !.pc = "event", !.field = CleanText(cleaning.time_str),
                                        !.time = res[1], !.invite_only = res[2]]
    /\ UNCHANGED notCleaning

NextCleaning == CallCleanEventTime \/ ScrapeEventsCleansTime

CleaningStart == InitCleaning /\ OthersIdle("cleaning")

SpecCleaning == CleaningStart /\ [][NextCleaning]_vars

\* t is one time of the shape H:MM am/pm: one or two digits, a colon, two
\* digits, optional white space, am or pm in lower or upper case
IsClockTime(t) ==
    \E d \in {1, 2} :
        /\ Len(t) >= d + 5
        /\ \A k \in 1..d : IsDigit(t[k])
        /\ t[d + 1] = ":"
        /\ IsDigit(t[d + 2]) /\ IsDigit(t[d + 3])
        /\ \A k \in (d + 4)..(Len(t) - 2) : IsSpace(t[k])
        /\ SubSeq(t, Len(t) - 1, Len(t)) \in Meridiems

\* the time field carries an invite-only phrase, in any case
FieldHasInvitePhrase(field) ==
    \E ph \in InvitePhrasesTime : Contains(Lower(field), ph)

\* C20: for every result (time, invite_only) of clean_event_time, called
\* directly or by scrape_events for an Event: invite_only = true implies that
\* time is empty; a non-empty time is one H:MM am/pm match found in the time
\* field, with invite_only = false; and a time field that carries an
\* invite-only phrase gives ("", true) even when it also carries a time.
C20_InviteOnlyExcludesTime ==
    cleaning.pc \in {"returned", "event"} =>
        /\ (cleaning.invite_only => cleaning.time = <<>>)
        /\ (cleaning.time # <<>> =>
               /\ ~cleaning.invite_only
               /\ IsClockTime(cleaning.time)
               /\ Contains(cleaning.field, cleaning.time))
        /\ (FieldHasInvitePhrase(cleaning.field) =>
               cleaning.time = <<>> /\ cleaning.invite_only)

\* an Event was built from a time field with both a phrase and a time
C20_Witness ==
    /\ cleaning.pc = "event"
    /\ FieldHasInvitePhrase(cleaning.field)
    /\ \E a \in 1..Len(cleaning.field) : TimeEnd(cleaning.field, a) # 0
    /\ cleaning.invite_only
    /\ cleaning.time = <<>>

(***************************************************************************)
(* The field normalizers on their own: _clean_text,                        *)
(* format_date_to_mmm_dd_yyyy and clean_price_format of                    *)
(* src/scraper/scrape_tech_week_sf.py, and the date scrape_events builds   *)
(***************************************************************************)
\* the longest input, in pieces
MaxNormPieces == 3

\* what a date is made of: a day of the week, months, days, another word
DatePieces ==
    { <<"F","r","i"," ">>,
      <<"O","c","t"," ">>,
      <<"D","e","c">>,
      <<"1","0">>,
      <<"7"," ">>,
      <<"g","a","r","b","a","g","e"," ">> }

\* what a price is made of
PricePieces ==
    { <<"$">>,
      <<"1","2">>,
      <<".">>,
      <<"5","0">>,
      <<"-">>,
      <<"F","r","e","e">>,
      <<"f","R","E","E">>,
      <<" ">>,
      <<"x">> }

\* what a text is made of
TextPieces ==
    { <<"a">>,
      <<" ">>,
      <<"\t">>,
      <<"\n">>,
      <<"B"," ","c">> }

\* the prices the normalizer is documented with
PriceExamples ==
    { <<"F","r","e","e">>,
      <<"$","1","2",".","5","0">>,
      <<"$","1","0","-","$","2","0">>,
      <<"$","1",".","2","3","4">> }

RECURSIVE TextsOf(_, _)
TextsOf(pieces, n) ==
    IF n = 0 THEN {<<>>}
    ELSE LET shorter == TextsOf(pieces, n - 1)
         IN  shorter \cup {t \o p : t \in shorter, p \in pieces}

NormInputs ==
    TextsOf(DatePieces, MaxNormPieces) \cup TextsOf(PricePieces, MaxNormPieces)
        \cup TextsOf(TextPieces, MaxNormPieces) \cup PriceExamples

\* absent stands for None: `not text` takes it for the empty string
InitNorm ==
    norm \in {[pc |-> "ready", absent |-> FALSE, text |-> t, arg |-> <<>>,
               out |-> <<>>, again |-> <<>>] : t \in NormInputs}
             \cup {[pc |-> "ready", absent |-> TRUE, text |-> <<>>, arg |-> <<>>,
                    out |-> <<>>, again |-> <<>>]}

\* _clean_text(text), and _clean_text of its result
CallCleanText ==
    /\ norm.pc = "ready"
    /\ norm' = [norm EXCEPT !.pc = "clean_text", !.arg = norm.text,
                            !.out = CleanText(norm.text),
                            !.again = CleanText(CleanText(norm.text))]
    /\ UNCHANGED notNorm

\* format_date_to_mmm_dd_yyyy(date_str)
CallFormatDate ==
    /\ norm.pc = "ready"
    /\ norm' = [norm EXCEPT !.pc = "format_date", !.arg = norm.text,
                            !.out = FormatDate(norm.text)]
    /\ UNCHANGED notNorm

\* scrape_events: the texts of the date elements are the words of the input;
\* date is assembled from them and event_date = format_date(_clean_text(date))
ScrapeEventsFormatsDate ==
    /\ norm.pc = "ready"
    /\ ~norm.absent
    /\ LET date == AssembleDate(Split(norm.text))
       IN  norm' = [norm EXCEPT !.pc = "event_date", !.arg = CleanText(date),
                                !.out = FormatDate(CleanText(date))]
    /\ UNCHANGED notNorm

\* clean_price_format(price_str)
CallCleanPrice ==
    /\ norm.pc = "ready"
    /\ norm' = [norm EXCEPT !.pc = "clean_price", !.arg = norm.text,
                            !.out = CleanPrice(norm.text)]
    /\ UNCHANGED notNorm

NextNorm == CallCleanText \/ CallFormatDate \/ ScrapeEventsFormatsDate \/ CallCleanPrice

NormStart == InitNorm /\ OthersIdle("norm")

SpecNorm == NormStart /\ [][NextNorm]_vars

\* the places of a month of the table directly followed by a numeric day
MonthDayPlaces(words) ==
    {k \in 1..(Len(words) - 1) : words[k] \in MonthNames /\ AllDigits(words[k + 1])}

\* MON-DD-2025 for the first month and day of the words
MonthDayYear(words) ==
    LET k == CHOOSE a \in MonthDayPlaces(words) : \A b \in MonthDayPlaces(words) : a <= b
    IN  words[k] \o <<"-">> \o Pad2(ToInt(words[k + 1])) \o <<"-">> \o TargetYear

\* C21: format_date, called directly or on the date scrape_events assembles,
\* returns MON-DD-2025 (day padded to two digits) whenever its input carries a
\* month of the table followed by a numeric day, also when the day of the week
\* is missing ("Oct 10"), and returns every other input unchanged.
C21_FormatDateRecognizesMonthAndDay ==
    norm.pc \in {"format_date", "event_date"} =>
        IF MonthDayPlaces(Split(norm.arg)) # {}
        THEN norm.out = MonthDayYear(Split(norm.arg))
        ELSE norm.out = norm.arg

\* a string of digits with an optional decimal part
IsNumeral(t) ==
    /\ t # <<>>
    /\ IsDigit(t[1]) /\ IsDigit(t[Len(t)])
    /\ \A k \in 1..Len(t) : IsDigit(t[k]) \/ t[k] = "."
    /\ Cardinality({k \in 1..Len(t) : t[k] = "."}) <= 1

\* the places at which a digit of s stands
DigitPlaces(s) == {k \in 1..Len(s) : IsDigit(s[k])}

Free == <<"F","r","e","e">>

Zero == <<"0">>

\* C22: for every input clean_price returns "0" or a string of digits with an
\* optional decimal part and never a currency symbol: "free" in any letter
\* case gives "0"; otherwise the result is the numeric substring that starts
\* at the first digit of the input; without a digit it is "0".  In particular
\* "Free" -> "0", "$12.50" -> "12.50", "" -> "0", "$10-$20" -> "10".
C22_CleanPriceIsNumeric ==
    norm.pc = "clean_price" =>
        LET price == Strip(norm.arg)
            first == CHOOSE a \in DigitPlaces(price) : \A b \in DigitPlaces(price) : a <= b
        IN  /\ IsNumeral(norm.out)
            /\ \A k \in 1..Len(norm.out) : norm.out[k] # "$"
            /\ (Lower(price) = Lower(Free) => norm.out = Zero)
            /\ (DigitPlaces(price) = {} => norm.out = Zero)
            /\ (Lower(price) # Lower(Free) /\ DigitPlaces(price) # {} =>
                   /\ Len(norm.out) <= Len(price) - first + 1
                   /\ norm.out = SubSeq(price, first, first + Len(norm.out) - 1)
                   /\ \A k \in first..(first + Len(norm.out) - 1) :
                          price[k] = "." \/ IsDigit(price[k]))
            /\ (norm.arg = Free => norm.out = Zero)
            /\ (norm.arg = <<"$","1","2",".","5","0">> => norm.out = <<"1","2",".","5","0">>)
            /\ (norm.arg = <<>> => norm.out = Zero)
            /\ (norm.arg = <<"$","1","0","-","$","2","0">> => norm.out = <<"1","0">>)

\* clean_price took the first number out of a price with a currency symbol
C22_Witness ==
    /\ norm.pc = "clean_price"
    /\ norm.arg = <<"$","1","0","-","$","2","0">>
    /\ norm.out = <<"1","0">>

\* white space in the sense of \s and str.strip
HasSpaceRun(t) == \E k \in 1..(Len(t) - 1) : IsSpace(t[k]) /\ IsSpace(t[k + 1])

\* C23: clean_text is idempotent, clean_text(clean_text(s)) = clean_text(s)
\* for every string s, the empty and the absent one included, and its result
\* neither begins nor ends with white space nor holds two white space
\* characters in a row.
C23_CleanTextIdempotent ==
    norm.pc = "clean_text" =>
        /\ norm.again = norm.out
        /\ (norm.out # <<>> => ~IsSpace(norm.out[1]) /\ ~IsSpace(norm.out[Len(norm.out)]))
        /\ ~HasSpaceRun(norm.out)
        /\ (norm.absent \/ norm.arg = <<>> => norm.out = <<>>)

\* a text with white space at an end and a run inside was cleaned
C23_Witness ==
    /\ norm.pc = "clean_text"
    /\ norm.arg # <<>>
    /\ IsSpace(norm.arg[Len(norm.arg)])
    /\ HasSpaceRun(norm.arg)
    /\ norm.out # <<>>
    /\ norm.out # norm.arg

(***************************************************************************)
(* The LOADING loop of scrape_events step by step: the load-more step, the *)
(* scroll calls, the re-read of the item count and the pagination readout  *)
(* of one cycle, each in its own try block                                 *)
(***************************************************************************)
\* the scroll calls of a cycle: they return, or one of them raises
ScrollOutcomes == {"done", "raise"}

\* the re-reads of the loop: a count at the floor, one above it, a raise
LoadReadings == {Answer(MinItemFloor), Answer(MinItemFloor + 1), ReadRaises}

\* the loop is entered after a read that answered more than 0
InitLoading ==
    loading \in {[pc |-> "loading", variant |-> v, i |-> 0, count |-> r.n,
                  last_count |-> -1, stable_rounds |-> 0, clicks |-> 0,
                  lookup_raised |-> FALSE, scroll_raised |-> FALSE,
                  read_raised |-> FALSE, info |-> [kind |-> "null"],
                  all_raised |-> 0, exit_reason |-> "none"] :
                     v \in Variants, r \in LoadReadings \ {ReadRaises}}

\* one pass of the `for i in range(SCROLL_MAX_CYCLES)` loop.  An exception in
\* the load-more step, in the scroll calls, in the re-read or in the
\* pagination readout is caught by the try block around that step, and the
\* statements after the block run.  all_raised counts the cycles in which
\* all four raised.
LoadingCycleInDetail ==
    /\ loading.pc = "loading"
    /\ ~CycleLimitReached(loading.i)
    /\ \E outcomes \in [Selectors(loading.variant) -> SelectorOutcomes],
          scroll \in ScrollOutcomes,
          r \in LoadReadings,
          info \in IF loading.variant = "scraper" THEN PaginationReadouts
                   ELSE {[kind |-> "null"]} :
         LET c      == CountRead(r, loading.last_count)
             rounds == NextStableRounds(c, loading.last_count, loading.stable_rounds)
             ends   == loading.variant = "scraper" /\ PaginationEnds(info)
             stable == IsStable(loading.variant, rounds, c)
             every  == /\ LookupRaised(outcomes) /\ scroll = "raise" /\ r.raised
                       /\ (loading.variant = "scraper" => info.kind = "raise")
         IN  loading' =
                 [loading EXCEPT
                     !.clicks = ClicksOf(outcomes),
                     !.lookup_raised = LookupRaised(outcomes),
                     !.scroll_raised = (scroll = "raise"),
                     !.read_raised = r.raised,
                     !.count = c,
                     !.stable_rounds = rounds,
                     !.last_count = c,
                     !.info = info,
                     !.i = loading.i + 1,
                     !.all_raised = IF every THEN loading.all_raised + 1
                                    ELSE loading.all_raised,
                     !.pc = IF ends \/ stable \/ CycleLimitReached(loading.i + 1)
                            THEN "enumerate" ELSE "loading",
                     !.exit_reason = IF ends THEN "pagination"
                                     ELSE IF stable THEN "stable"
                                     ELSE IF CycleLimitReached(loading.i + 1)
                                          THEN "exhausted"
                                     ELSE loading.exit_reason]
    /\ UNCHANGED notLoading

NextLoading == LoadingCycleInDetail

LoadingStart == InitLoading /\ OthersIdle("loading")

SpecLoading == LoadingStart /\ [][NextLoading]_vars

\* C26: the pagination readout ends the LOADING loop only in a cycle whose
\* readout reports current page >= total pages and, in addition, no
\* load-more control; a readout with current < total, or one taken while a
\* load-more control is present, never ends the loop.
C26_PaginationEndNeedsLastPageAndNoControl ==
    loading.exit_reason = "pagination" =>
        /\ loading.info.kind = "info"
        /\ loading.info.currentPage >= loading.info.totalPages
        /\ ~loading.info.hasLoadMore

\* C27: an exception raised in a cycle by the load-more lookup or click, by a
\* scroll call, by the re-read of the item count or by the pagination readout
\* never ends the loop or scrape_events: the cycle is completed, the loop is
\* left only by one of its three rules and only for the card extraction,
\* while it is not left a further cycle can be taken, and no cycle clicks
\* more than one load-more control.
C27_ExceptionsNeverEndTheLoop ==
    /\ [](loading.pc \in {"idle", "loading", "enumerate"})
    /\ [](loading.pc = "loading" => ENABLED LoadingCycleInDetail)
    /\ [](loading.pc # "idle" => loading.clicks <= 1)
    /\ [](loading.pc = "loading" => loading.exit_reason = "none")
    /\ [](loading.pc = "enumerate" =>
              \/ /\ loading.exit_reason = "pagination"
                 /\ loading.info.kind = "info"
              \/ /\ loading.exit_reason = "stable"
                 /\ loading.stable_rounds >= STABLE_ROUNDS_TARGET
              \/ /\ loading.exit_reason = "exhausted"
                 /\ loading.i = SCROLL_MAX_CYCLES)
    /\ [][loading.pc = "loading" =>
              /\ loading'.i = loading.i + 1
              /\ loading'.last_count = loading'.count
              /\ loading'.pc \in {"loading", "enumerate"}]_vars

\* after a cycle in which every step raised, a later cycle clicked a control
C27_Witness ==
    /\ loading.pc = "loading"
    /\ loading.all_raised >= 1
    /\ loading.i >= 2
    /\ loading.clicks = 1
    /\ ~loading.read_raised

\* the description clean_event_time was called with
DescriptionPassed ==
    IF cleaning.pc = "event" THEN CleanText(cleaning.desc) ELSE cleaning.desc

\* the time field carries a match of the time pattern
FieldHasTime(field) == \E a \in 1..Len(field) : TimeEnd(Strip(field), a) # 0

\* C28: clean_event_time consults the description only when the time string
\* is empty, and then scans it for the same invite-only phrases that it looks
\* for in the time field; for a non-empty time string with neither a phrase
\* nor a time the result is ("", false) whatever the description says.
C28_DescriptionOnlyForEmptyTime ==
    cleaning.pc \in {"returned", "event"} =>
        /\ (Strip(cleaning.field) = <<>> =>
               /\ cleaning.time = <<>>
               /\ cleaning.invite_only = FieldHasInvitePhrase(DescriptionPassed))
        /\ (Strip(cleaning.field) # <<>> =>
               /\ cleaning.invite_only = FieldHasInvitePhrase(cleaning.field)
               /\ (~FieldHasInvitePhrase(cleaning.field) /\ ~FieldHasTime(cleaning.field) =>
                      cleaning.time = <<>> /\ ~cleaning.invite_only))

(***************************************************************************)
(* Properties of scrape_events                                             *)
(***************************************************************************)
\* C1: the LOADING loop performs at most SCROLL_MAX_CYCLES cycles whatever the
\* readings, click outcomes and pagination readouts are: while in the loop a
\* further cycle can always be taken, every step taken there is one more
\* cycle, and the loop is left only for the card-extraction step.
C1_LoopTerminates ==
    /\ [](i <= SCROLL_MAX_CYCLES /\ Len(reads) = i)
    /\ [](pc = "loading" => ENABLED LoadingCycle)
    /\ [][pc = "loading" => i' = i + 1 /\ pc' \in {"loading", "enumerate"}]_vars
    /\ [][pc = "loading" /\ pc' # "loading" =>
              pc' = "enumerate" /\ exit_reason' \in {"stable", "pagination", "exhausted"}]_vars

\* the loop is left because the cycle limit is used up
C1_Witness == pc = "enumerate" /\ exit_reason = "exhausted" /\ i = SCROLL_MAX_CYCLES

\* C2: when no item is observed within the bound, scrape_events goes from the
\* wait straight to its end: no LOADING cycle, no card, an empty Event list;
\* and LOADING is entered only after a read that answered more than 0.
C2_TimeoutIsEmptyResult ==
    /\ [](exit_reason = "timeout" =>
              /\ pc = "done" /\ i = 0 /\ reads = <<>>
              /\ card_handles = <<>> /\ dom = <<>> /\ events = <<>>)
    /\ [][exit_reason # "timeout" /\ exit_reason' = "timeout" =>
              pc = "wait" /\ pc' = "done" /\ count' = 0]_vars
    /\ [][pc = "wait" /\ pc' = "loading" => count' > 0]_vars

\* the bound passes after polls that all read 0 or raised
C2_Witness == pc = "done" /\ exit_reason = "timeout" /\ polls = MaxPolls /\ events = <<>>

Readings_5_8_8_8 == <<Answer(5), Answer(8), Answer(8), Answer(8)>>

\* C3 as stated: after the readings 5, 8, 8, 8 and with a threshold of 3 the
\* loop has reported stable.
C3_StableAfter_5_8_8_8 ==
    (reads = Readings_5_8_8_8 /\ STABLE_ROUNDS_TARGET = 3) =>
        (pc = "enumerate" /\ exit_reason = "stable")

\* C3 amended: after the readings 5, 8, 8, 8 stable_rounds is 2 and the loop has
\* not reported stable; after one more reading of 8 the count has been unchanged
\* for 3 cycles, and the root copy reports stable (the scraper copy does not: 8 is
\* not above its floor).
C3_StableAfterFifthReading ==
    /\ (reads = Readings_5_8_8_8 /\ STABLE_ROUNDS_TARGET = 3) =>
           (stable_rounds = 2 /\ exit_reason # "stable")
    /\ (reads = Append(Readings_5_8_8_8, Answer(8)) /\ STABLE_ROUNDS_TARGET = 3) =>
           /\ stable_rounds = 3
           /\ variant = "root" => (pc = "enumerate" /\ exit_reason = "stable")
           /\ variant = "scraper" => exit_reason # "stable"

\* the fifth reading of 8 has been taken by the root copy
C3_Witness ==
    /\ variant = "root"
    /\ reads = Append(Readings_5_8_8_8, Answer(8))
    /\ exit_reason = "stable"

\* the item count of the cycle that made the last of the reads rs: what the
\* read answered, or the count before it when the read raised; -1 before the
\* first cycle
RECURSIVE CountAfter(_)
CountAfter(rs) ==
    IF rs = <<>> THEN -1
    ELSE IF rs[Len(rs)].raised THEN CountAfter(SubSeq(rs, 1, Len(rs) - 1))
    ELSE rs[Len(rs)].n

\* the k-th cycle left the item count as the cycle before it had it
CountUnchanged(rs, k) == CountAfter(SubSeq(rs, 1, k)) = CountAfter(SubSeq(rs, 1, k - 1))

\* how many of the most recent cycles, the last one included, left the count
\* unchanged
TrailingUnchanged(rs) ==
    Cardinality({k \in 1..Len(rs) : \A j \in k..Len(rs) : CountUnchanged(rs, j)})

InLoop == pc \in {"loading", "enumerate"}

\* C24: at the end of every LOADING cycle stable_rounds is the number of
\* consecutive most recent cycles, the current one included, whose item count
\* equalled the count of the cycle before: an unchanged count adds 1, a changed
\* count sets it to 0, and a first cycle whose read succeeds is compared with
\* the sentinel and does not count as unchanged.
C24_StableRoundsCountsUnchangedCycles ==
    InLoop =>
        /\ stable_rounds = TrailingUnchanged(reads)
        /\ (i >= 1 /\ count = CountAfter(SubSeq(reads, 1, i - 1)) =>
               stable_rounds = TrailingUnchanged(SubSeq(reads, 1, i - 1)) + 1)
        /\ (i >= 1 /\ count # CountAfter(SubSeq(reads, 1, i - 1)) => stable_rounds = 0)
        /\ (i = 1 /\ ~reads[1].raised => stable_rounds = 0)

\* a change of the count followed by two cycles that left it unchanged
C24_Witness ==
    /\ InLoop
    /\ i = 4
    /\ \A k \in 1..4 : ~reads[k].raised
    /\ reads[1].n = reads[2].n /\ reads[2].n # reads[3].n /\ reads[3].n = reads[4].n
    /\ stable_rounds = 1

\* C25: the scraper copy leaves LOADING through the stability rule only at the
\* end of a cycle with stable_rounds >= STABLE_ROUNDS_TARGET and an item count
\* above 500; with 500 items or fewer it never reports stable, however long
\* the count has been unchanged.
C25_StableNeedsCountAboveFloor ==
    (variant = "scraper" /\ InLoop) =>
        /\ (exit_reason = "stable" =>
               pc = "enumerate" /\ stable_rounds >= STABLE_ROUNDS_TARGET /\ count > 500)
        /\ (count <= 500 => exit_reason # "stable")

\* the scraper copy reports stable on a page of more than 500 items
C25_Witness ==
    /\ variant = "scraper"
    /\ pc = "enumerate"
    /\ exit_reason = "stable"
    /\ count = 501
    /\ stable_rounds = STABLE_ROUNDS_TARGET

\* C29: a cycle whose re-read of the item count raises is not neutral for the
\* stability rule: its count is the count of the cycle before (the sentinel -1
\* on the first cycle), so stable_rounds is one more than before.
C29_FailedReadCountsAsUnchanged ==
    (InLoop /\ i >= 1 /\ reads[i].raised) =>
        /\ count = CountAfter(SubSeq(reads, 1, i - 1))
        /\ stable_rounds = TrailingUnchanged(SubSeq(reads, 1, i - 1)) + 1
        /\ (i = 1 => count = -1 /\ stable_rounds = 1)

\* failed reads alone have raised stable_rounds to the threshold
C29_Witness ==
    /\ InLoop
    /\ i = STABLE_ROUNDS_TARGET
    /\ \A k \in 1..i : reads[k].raised
    /\ stable_rounds = STABLE_ROUNDS_TARGET
    /\ count = -1

\* what the name of the Event of a card must be
ExpectedName(card) == IF card.name.fail THEN <<>> ELSE CleanText(card.name.text)

\* C4: once the loop over the cards is over there is exactly one Event per card
\* handle, the handles were processed in document order, one each, and the
\* k-th Event is the one of the k-th card, also for a card whose every field
\* extraction fails.
C4_OneEventPerCard ==
    /\ Len(events) = Len(dom)
    /\ Len(dom) <= Len(card_handles)
    /\ \A k \in 1..Len(dom) : dom[k].handle = card_handles[k]
    /\ \A k \in 1..Len(events) :
           k <= Len(dom) => events[k].event_name = ExpectedName(dom[k].card)
    /\ (pc = "done" /\ exit_reason # "timeout") => Len(events) = Len(card_handles)

\* a page of MaxCards cards, the first failing in every field, is returned
C4_Witness ==
    /\ pc = "done"
    /\ Len(card_handles) = MaxCards
    /\ Len(events) = MaxCards
    /\ dom[1].card = FailingCard
    /\ dom[2].card # FailingCard

\* what every field of the Event of a card must be when the fields are
\* extracted independently of each other
ExpectedTime(v, card) ==
    IF card.time.fail THEN <<>>
    ELSE IF v = "scraper" THEN CleanEventTime(CleanText(card.time.text), <<>>)[1]
    ELSE CleanText(card.time.text)

ExpectedDate(v, card) ==
    IF card.date.fail THEN <<>>
    ELSE IF v = "scraper" THEN FormatDate(CleanText(AssembleDate(card.date.tokens)))
    ELSE CleanText(AssembleDate(card.date.tokens))

ExpectedLocation(card) == IF card.loc.fail THEN <<>> ELSE CleanText(card.loc.text)

ExpectedLink(card) == IF card.link.fail THEN <<>> ELSE card.link.text

\* C5: a failure while extracting one of name, time, date, location and link
\* leaves that field empty and every other field as its own lookup gives it.
C5_FieldsIndependent ==
    \A k \in 1..Len(events) :
        /\ events[k].event_name = ExpectedName(dom[k].card)
        /\ events[k].event_time = ExpectedTime(variant, dom[k].card)
        /\ events[k].event_date = ExpectedDate(variant, dom[k].card)
        /\ events[k].event_location = ExpectedLocation(dom[k].card)
        /\ events[k].event_url = ExpectedLink(dom[k].card)

\* the cards the scenario of C6 is about: a name, no location, a link whose
\* page answers with an HTTP error
Http500Card(card) ==
    /\ ~card.name.fail /\ CleanText(card.name.text) # <<>>
    /\ (card.loc.fail \/ CleanText(card.loc.text) = <<>>)
    /\ ~card.link.fail /\ card.link.text # <<>>
    /\ card.resp.status = "http_error"

TimeFieldSignalsInvite(card) ==
    /\ ~card.time.fail
    /\ \E ph \in InvitePhrasesTime : Contains(Lower(card.time.text), ph)

\* C6 as stated: such a card yields an Event with a name, no location, no
\* description, no host, an empty price, and invite_only only if the time field
\* signals it.
C6_Http500GivesEmptyPrice ==
    \A k \in 1..Len(events) :
        (variant = "scraper" /\ Http500Card(dom[k].card)) =>
            /\ events[k].event_name # <<>>
            /\ events[k].event_location = <<>>
            /\ events[k].event_description = <<>>
            /\ events[k].hosted_by = <<>>
            /\ events[k].price = <<>>
            /\ events[k].invite_only => TimeFieldSignalsInvite(dom[k].card)

\* C6 amended: the price of that Event is "0" in the scraper copy, which passes
\* the empty price through clean_price_format (it is empty in the root copy,
\* whose Event has no invite_only); the rest is as stated.
C6_Http500GivesZeroPrice ==
    \A k \in 1..Len(events) :
        Http500Card(dom[k].card) =>
            /\ events[k].event_name # <<>>
            /\ events[k].event_location = <<>>
            /\ events[k].event_description = <<>>
            /\ events[k].hosted_by = <<>>
            /\ variant = "root" => events[k].price = <<>>
            /\ variant = "scraper" =>
                   /\ events[k].price = <<"0">>
                   /\ events[k].invite_only => TimeFieldSignalsInvite(dom[k].card)

\* such a card has been extracted by the scraper copy, its time field free of
\* any invite-only phrase
C6_Witness ==
    /\ variant = "scraper"
    /\ Len(events) = 1
    /\ Http500Card(dom[1].card)
    /\ ~dom[1].card.time.fail /\ dom[1].card.time.text # <<>>
    /\ ~events[1].invite_only

\* the fetch of the page of a card, or the parsing of it, fails
FetchFails(resp) == resp.status # "ok" \/ resp.fail_at # "none"

\* C17: whenever the fetch or the parsing fails at any point (network error,
\* HTTP error status, exception after some fields were recovered) the three
\* fields fetch_external_details returns are empty strings.
C17_FailureGivesEmptyDetails ==
    \A k \in 1..Len(events) :
        (~dom[k].card.link.fail /\ dom[k].card.link.text # <<>>
            /\ FetchFails(dom[k].card.resp)) =>
            /\ FetchExternalDetails(dom[k].card.resp) = <<(<<>>), <<>>, <<>>>>
            /\ events[k].event_description = <<>>
            /\ events[k].hosted_by = <<>>
            /\ variant = "root" => events[k].price = <<>>

=============================================================================
